---------------------------- MODULE Spec2Model ----------------------------
(***************************************************************************)
(* Model of the IELTS vocabulary sheet core (src/src/gsheets.py) and of    *)
(* the enrichment pipeline with its HTTP backoff wrapper                   *)
(* (src/src/enrich.py).                                                    *)
(*                                                                         *)
(* Text is modelled as a sequence of one-character strings, so that        *)
(* str.strip(), str.lower(), substring tests and date formatting are       *)
(* computed the way the Python code computes them.                         *)
(*                                                                         *)
(* The specifications share the variables:                                 *)
(*   Spec      - the remote table, the dedup key cache and the operations  *)
(*               add_word, bulk_import_csv, schedule_next, ... when every  *)
(*               remote request is answered at the first attempt.          *)
(*   RetrySpec - calls through a backoff wrapper (_retry_gsheet or         *)
(*               _retry_http), attempt by attempt, one call after another. *)
(*   FaultSpec - the operations of Spec when one remote request of the     *)
(*               call fails: at its first attempt only, for good, or       *)
(*               after the store applied it.                               *)
(*   ConcSpec  - two callers, each with its own dedup key cache, whose     *)
(*               calls interleave request by request.                      *)
(*   CommandSpec - one enrich_word call, from one external call to the     *)
(*               next, with the cache directory; and the import command.   *)
(***************************************************************************)
EXTENDS Integers, Sequences, FiniteSets, TLC

VARIABLES
    sheet,      \* the worksheet: a sequence of rows, each a 9-tuple of cell texts
    key_cache,  \* gsheets._key_cache: [is_none, keys]
    today,      \* date.today()
    last,       \* observation of the most recent call (arguments, result, writes)
    prev,       \* observation of the call before it
    nops,       \* number of calls made so far
    rx,         \* state of one call through a backoff wrapper
    fault,      \* the remote request of the most recent call that failed, and what became of it
    conc,       \* two callers at work on the table at once, request by request
    en          \* one enrich_word call in progress, with CACHE_DIR and the calls it made

vars == <<sheet, key_cache, today, last, prev, nops, rx, fault, conc, en>>

---------------------------------------------------------------------------
(* Text helpers                                                            *)

UpperChars ==
    <<"A","B","C","D","E","F","G","H","I","J","K","L","M",
      "N","O","P","Q","R","S","T","U","V","W","X","Y","Z">>

LowerChars ==
    <<"a","b","c","d","e","f","g","h","i","j","k","l","m",
      "n","o","p","q","r","s","t","u","v","w","x","y","z">>

\* str.lower() on one character
UpperToLower == [i \in 1..Len(UpperChars) |-> LowerChars[i]]

UpperSet == { UpperChars[i] : i \in 1..Len(UpperChars) }

UpperIndex == [c \in UpperSet |-> CHOOSE i \in 1..Len(UpperChars) : UpperChars[i] = c]

LowerChar(c) == IF c \in UpperSet THEN UpperToLower[UpperIndex[c]] ELSE c

\* str.lower()
RECURSIVE Lower(_)
Lower(s) == IF s = <<>> THEN <<>> ELSE <<LowerChar(s[1])>> \o Lower(Tail(s))

IsSpace(c) == c \in {" ", "\t", "\n"}

RECURSIVE LStrip(_)
LStrip(s) ==
    IF s = <<>> THEN <<>>
    ELSE IF IsSpace(s[1]) THEN LStrip(Tail(s)) ELSE s

RECURSIVE RStrip(_)
RStrip(s) ==
    IF s = <<>> THEN <<>>
    ELSE IF IsSpace(s[Len(s)]) THEN RStrip(SubSeq(s, 1, Len(s) - 1)) ELSE s

\* str.strip()
Strip(s) == RStrip(LStrip(s))

\* s.startswith(p)
StartsWith(s, p) == Len(p) <= Len(s) /\ SubSeq(s, 1, Len(p)) = p

\* Python's  needle in s  for strings
Contains(s, needle) ==
    \E i \in 1..(Len(s) - Len(needle) + 1) :
        SubSeq(s, i, i + Len(needle) - 1) = needle

\* str.replace(old, new) with a non-empty old, leftmost non-overlapping
RECURSIVE Replace(_, _, _)
Replace(s, old, new) ==
    IF s = <<>> THEN <<>>
    ELSE IF StartsWith(s, old)
         THEN new \o Replace(SubSeq(s, Len(old) + 1, Len(s)), old, new)
         ELSE <<s[1]>> \o Replace(Tail(s), old, new)

Empty == <<>>

---------------------------------------------------------------------------
(* Dates: date.today(), timedelta, isoformat                               *)

IsLeap(y) == (y % 4 = 0 /\ y % 100 # 0) \/ y % 400 = 0

DaysInMonth(y, m) ==
    IF m = 2 THEN (IF IsLeap(y) THEN 29 ELSE 28)
    ELSE IF m \in {4, 6, 9, 11} THEN 30 ELSE 31

NextDay(dt) ==
    IF dt.d < DaysInMonth(dt.y, dt.m) THEN [dt EXCEPT !.d = dt.d + 1]
    ELSE IF dt.m < 12 THEN [y |-> dt.y, m |-> dt.m + 1, d |-> 1]
    ELSE [y |-> dt.y + 1, m |-> 1, d |-> 1]

\* date + timedelta(days=n), n >= 0
RECURSIVE AddDays(_, _)
AddDays(dt, n) == IF n = 0 THEN dt ELSE AddDays(NextDay(dt), n - 1)

DigitChars == <<"0","1","2","3","4","5","6","7","8","9">>

DigitChar(n) == DigitChars[n + 1]

Pad2(n) == <<DigitChar((n \div 10) % 10), DigitChar(n % 10)>>

Pad4(n) == <<DigitChar((n \div 1000) % 10), DigitChar((n \div 100) % 10)>> \o Pad2(n % 100)

\* date.isoformat(): YYYY-MM-DD
IsoFormat(dt) == Pad4(dt.y) \o <<"-">> \o Pad2(dt.m) \o <<"-">> \o Pad2(dt.d)

---------------------------------------------------------------------------
(* The worksheet and the gspread calls the code makes on it                *)

\* "Word"
H_Word == <<"W","o","r","d">>

\* "POS"
H_POS == <<"P","O","S">>

\* "Meaning"
H_Meaning == <<"M","e","a","n","i","n","g">>

\* "Example"
H_Example == <<"E","x","a","m","p","l","e">>

\* "Synonyms"
H_Synonyms == <<"S","y","n","o","n","y","m","s">>

\* "Topic"
H_Topic == <<"T","o","p","i","c">>

\* "Source"
H_Source == <<"S","o","u","r","c","e">>

\* "Review Date"
H_ReviewDate == <<"R","e","v","i","e","w"," ","D","a","t","e">>

\* "Note"
H_Note == <<"N","o","t","e">>

\* gsheets.EXPECTED_HEADERS
EXPECTED_HEADERS ==
    <<H_Word, H_POS, H_Meaning, H_Example, H_Synonyms, H_Topic, H_Source, H_ReviewDate, H_Note>>

\* column A holds Word (findall(word, in_column=1))
WordCol == 1

\* column H holds Review Date (_update_cell(ws, row_idx, 8, next_date))
ReviewDateCol == 8

NCols == Len(EXPECTED_HEADERS)

EmptyRow == <<Empty, Empty, Empty, Empty, Empty, Empty, Empty, Empty, Empty>>

\* a list of cell texts without its trailing empty cells
RECURSIVE TrimTrailing(_)
TrimTrailing(cells) ==
    IF cells = <<>> THEN <<>>
    ELSE IF cells[Len(cells)] = Empty THEN TrimTrailing(SubSeq(cells, 1, Len(cells) - 1))
    ELSE cells

\* ws.row_values(1): the first row up to its last non-empty cell
row_values(sh, r) == IF r > Len(sh) THEN <<>> ELSE TrimTrailing(sh[r])

\* ws.update("A1:I1", [EXPECTED_HEADERS])
update_A1_I1(sh, values) ==
    IF Len(sh) = 0 THEN <<values>> ELSE [sh EXCEPT ![1] = values]

\* a variant that puts the row below the last one
insert_row_at_end(sh, values) == sh \o <<values>>

\* ws.insert_row(values, index=1): the rows that were there move down by one
insert_row(sh, values) == <<values>> \o sh

\* ws.append_row(row) / ws.append_rows(rows): after the last row of the table
append_rows(sh, rows) == sh \o rows

\* ws.update_cell(r, c, val)
update_cell(sh, r, c, val) == [sh EXCEPT ![r][c] = val]

\* ws.findall(query, in_column=c): the rows of the cells of column c whose text
\* equals the query, top to bottom; row 1 is searched like any other row
findall(sh, query, c) == { r \in 1..Len(sh) : sh[r][c] = query }

\* [c.lower() for c in cells]
RECURSIVE LowerCells(_)
LowerCells(cells) == IF cells = <<>> THEN <<>> ELSE <<Lower(cells[1])>> \o LowerCells(Tail(cells))

\* [c.strip().lower() for c in cells]
RECURSIVE NormCells(_)
NormCells(cells) ==
    IF cells = <<>> THEN <<>> ELSE <<Lower(Strip(cells[1]))>> \o NormCells(Tail(cells))

\* norm_expected of ensure_headers
NORM_EXPECTED == LowerCells(EXPECTED_HEADERS)

\* log entries of the write requests one call sends to the worksheet
WriteRec(call, r, c, rows) == [call |-> call, r |-> r, c |-> c, rows |-> rows]

\* ensure_headers(ws) from the first row it holds: the worksheet and the write
\* requests it sends
ensure_headers_from(sh, first_row) ==
    LET norm_first    == NormCells(first_row)
        norm_expected == NORM_EXPECTED
        head          == SubSeq(norm_first, 1, IF Len(norm_first) < NCols THEN Len(norm_first) ELSE NCols)
    IN  IF Len(first_row) = 0
        THEN [sh |-> update_A1_I1(sh, EXPECTED_HEADERS),
              writes |-> <<WriteRec("update_header", 1, 1, <<EXPECTED_HEADERS>>)>>]
        ELSE IF head # norm_expected
        THEN [sh |-> insert_row(sh, EXPECTED_HEADERS),
              writes |-> <<WriteRec("insert_row", 1, 1, <<EXPECTED_HEADERS>>)>>]
        ELSE IF Len(first_row) < NCols
        THEN [sh |-> update_A1_I1(sh, EXPECTED_HEADERS),
              writes |-> <<WriteRec("update_header", 1, 1, <<EXPECTED_HEADERS>>)>>]
        ELSE [sh |-> sh, writes |-> <<>>]

\* ensure_headers(ws) when ws.row_values(1) answers
ensure_headers(sh) == ensure_headers_from(sh, row_values(sh, 1))

\* ensure_headers(ws) when ws.row_values(1) raises:  except Exception: first_row = []
ensure_headers_read_failed(sh) == ensure_headers_from(sh, <<>>)

\* open_ws(): the worksheet exists; the header row is ensured
open_ws(sh) == ensure_headers(sh)

\* index of a column name in a header row, 0 when absent
ColIndex(hdr, name) ==
    IF \E i \in 1..Len(hdr) : hdr[i] = name
    THEN CHOOSE i \in 1..Len(hdr) : hdr[i] = name /\ \A j \in 1..(i - 1) : hdr[j] # name
    ELSE 0

\* read_df(), after open_ws: pd.DataFrame(ws.get_all_records()); row 1 names the
\* columns, the rows below are the records
read_df(sh) ==
    IF Len(sh) <= 1 THEN [columns |-> <<>>, records |-> <<>>]
    ELSE [columns |-> sh[1], records |-> SubSeq(sh, 2, Len(sh))]

\* df[name] of one record
Field(df, rec, name) == rec[ColIndex(df.columns, name)]

---------------------------------------------------------------------------
(* Dedup key cache                                                         *)

\* _normalize_key(word, meaning)
_normalize_key(word, meaning) == <<Lower(Strip(word)), Lower(Strip(meaning))>>

\* _build_key_cache(df)
_build_key_cache(df) ==
    IF Len(df.records) = 0 THEN {}
    ELSE IF ColIndex(df.columns, H_Word) = 0 \/ ColIndex(df.columns, H_Meaning) = 0 THEN {}
    ELSE { _normalize_key(Field(df, df.records[i], H_Word), Field(df, df.records[i], H_Meaning)) :
             i \in 1..Len(df.records) }

CacheNone == [is_none |-> TRUE, keys |-> {}]

CacheOf(keys) == [is_none |-> FALSE, keys |-> keys]

\* refresh_key_cache(): open_ws, read every row, rebuild the cache
refresh_key_cache(sh) ==
    LET o == open_ws(sh)
    IN  [sh |-> o.sh, writes |-> o.writes, cache |-> CacheOf(_build_key_cache(read_df(o.sh)))]

\* exists_word_meaning(word, meaning): refreshes only when the cache is None
exists_word_meaning(sh, cache, word, meaning) ==
    LET r == IF cache.is_none THEN refresh_key_cache(sh)
             ELSE [sh |-> sh, writes |-> <<>>, cache |-> cache]
    IN  [sh |-> r.sh, writes |-> r.writes, cache |-> r.cache,
         found |-> _normalize_key(word, meaning) \in r.cache.keys]

---------------------------------------------------------------------------
(* dateutil.parser.parse on the texts the model feeds it: an ISO date      *)
(* YYYY-MM-DD parses, the empty text and a text without digits do not      *)

DigitSet == { DigitChars[i] : i \in 1..Len(DigitChars) }

DigitIndex == [c \in DigitSet |-> CHOOSE i \in 1..Len(DigitChars) : DigitChars[i] = c]

DigitValue(c) == DigitIndex[c] - 1

IsDigit(c) == c \in DigitSet

parse_dt(s) ==
    IF /\ Len(s) = 10
       /\ \A i \in {1, 2, 3, 4, 6, 7, 9, 10} : IsDigit(s[i])
       /\ s[5] = "-" /\ s[8] = "-"
    THEN LET y == DigitValue(s[1]) * 1000 + DigitValue(s[2]) * 100 + DigitValue(s[3]) * 10 + DigitValue(s[4])
             m == DigitValue(s[6]) * 10 + DigitValue(s[7])
             d == DigitValue(s[9]) * 10 + DigitValue(s[10])
         IN  IF y >= 1 /\ m \in 1..12 /\ d >= 1 /\ d <= DaysInMonth(y, m)
             THEN [ok |-> TRUE, date |-> [y |-> y, m |-> m, d |-> d]]
             ELSE [ok |-> FALSE, date |-> [y |-> 0, m |-> 0, d |-> 0]]
    ELSE [ok |-> FALSE, date |-> [y |-> 0, m |-> 0, d |-> 0]]

---------------------------------------------------------------------------
(* Observation of a call: what it was given, what it returned, what it     *)
(* wrote.  ret is "True", "False", "None", "int" (the number is in count)  *)
(* or "raise".                                                             *)

Obs(op, row, days, csv, ret, count, pre_sheet, pre_cache, opened, writes) ==
    [op |-> op, row |-> row, days |-> days, csv |-> csv, ret |-> ret, count |-> count,
     pre_sheet |-> pre_sheet, pre_cache |-> pre_cache, opened |-> opened, writes |-> writes]

NoObs == Obs("none", EmptyRow, 0, <<>>, "None", 0, <<>>, CacheNone, <<>>, <<>>)

---------------------------------------------------------------------------
(* add_word(row)                                                           *)

\* the guard of the dedup test:  word and meaning and exists_word_meaning(...)
add_word_checks_dup(word, meaning) == word # Empty /\ meaning # Empty

\* row.get("Review Date", today) or today
review_date_or_today(rd, now) == IF rd = Empty THEN IsoFormat(now) ELSE rd

\* the whole call: worksheet, cache, result and writes
add_word(sh, cache, now, row) ==
    LET o       == open_ws(sh)
        word    == row[1]
        meaning == row[3]
        e       == IF add_word_checks_dup(word, meaning)
                   THEN exists_word_meaning(o.sh, cache, word, meaning)
                   ELSE [sh |-> o.sh, writes |-> <<>>, cache |-> cache, found |-> FALSE]
        ordered == [row EXCEPT ![ReviewDateCol] = review_date_or_today(row[ReviewDateCol], now)]
    IN  IF e.found
        THEN [sh |-> e.sh, cache |-> e.cache, ret |-> "False", opened |-> o.sh,
              writes |-> o.writes \o e.writes]
        ELSE [sh |-> append_rows(e.sh, <<ordered>>),
              cache |-> CacheOf(e.cache.keys \cup {_normalize_key(word, meaning)}),
              ret |-> "True", opened |-> o.sh,
              writes |-> o.writes \o e.writes \o <<WriteRec("append_row", Len(e.sh) + 1, 1, <<ordered>>)>>]

---------------------------------------------------------------------------
(* schedule_next(word, days)                                               *)

SetMin(S) == CHOOSE x \in S : \A y \in S : x <= y

\* a variant that compares the Word cells ignoring case and surrounding blanks
schedule_next_nocase(sh, now, word, days) ==
    LET o     == open_ws(sh)
        cells == { r \in 1..Len(o.sh) : Lower(Strip(o.sh[r][WordCol])) = Lower(Strip(word)) }
    IN  IF cells = {}
        THEN [sh |-> o.sh, ret |-> "False", opened |-> o.sh, writes |-> o.writes]
        ELSE LET row_idx   == SetMin(cells)
                 next_date == IsoFormat(AddDays(now, days))
             IN  [sh |-> update_cell(o.sh, row_idx, ReviewDateCol, next_date),
                  ret |-> "True", opened |-> o.sh,
                  writes |-> o.writes \o <<WriteRec("update_cell", row_idx, ReviewDateCol, <<>>)>>]

schedule_next(sh, now, word, days) ==
    LET o     == open_ws(sh)
        cells == findall(o.sh, word, WordCol)
    IN  IF cells = {}
        THEN [sh |-> o.sh, ret |-> "False", opened |-> o.sh, writes |-> o.writes]
        ELSE LET row_idx   == SetMin(cells)
                 next_date == IsoFormat(AddDays(now, days))
             IN  [sh |-> update_cell(o.sh, row_idx, ReviewDateCol, next_date),
                  ret |-> "True", opened |-> o.sh,
                  writes |-> o.writes \o <<WriteRec("update_cell", row_idx, ReviewDateCol, <<>>)>>]

---------------------------------------------------------------------------
(* due_reviews(as_of)                                                      *)

\* a <= b on dates
DateLE(a, b) ==
    \/ a.y < b.y
    \/ a.y = b.y /\ a.m < b.m
    \/ a.y = b.y /\ a.m = b.m /\ a.d <= b.d

\* _due(x): parse_dt(str(x)).date() <= as_of, False when the parse raises
_due(x, as_of) == LET p == parse_dt(x) IN p.ok /\ DateLE(p.date, as_of)

\* df[mask]: the records the mask keeps, in order
RECURSIVE FilterRecords(_, _, _)
FilterRecords(df, recs, as_of) ==
    IF recs = <<>> THEN <<>>
    ELSE (IF _due(Field(df, recs[1], H_ReviewDate), as_of) THEN <<recs[1]>> ELSE <<>>)
            \o FilterRecords(df, Tail(recs), as_of)

\* the whole call: the worksheet after open_ws and the records returned
due_reviews(sh, as_of) ==
    LET o  == open_ws(sh)
        df == read_df(o.sh)
    IN  [sh |-> o.sh, opened |-> o.sh, writes |-> o.writes,
         records |-> IF df.records = <<>> \/ ColIndex(df.columns, H_ReviewDate) = 0 THEN <<>>
                     ELSE FilterRecords(df, df.records, as_of)]

---------------------------------------------------------------------------
(* bulk_import_csv(csv_path): csv is the frame pd.read_csv(...).fillna("") *)
(* yields, one 9-tuple per line in the column order of EXPECTED_HEADERS    *)

T_noun == <<"n","o","u","n">>

T_verb == <<"v","e","r","b">>

T_adjective == <<"a","d","j","e","c","t","i","v","e">>

T_adverb == <<"a","d","v","e","r","b">>

T_n == <<"n",".">>

T_v == <<"v",".">>

T_adj == <<"a","d","j",".">>

T_adv == <<"a","d","v",".">>

\* df["POS"]: strip, lower, then the four replacements in order
norm_pos(pos) ==
    Replace(Replace(Replace(Replace(Lower(Strip(pos)), T_noun, T_n), T_verb, T_v),
                    T_adjective, T_adj), T_adverb, T_adv)

\* _norm_date(x)
_norm_date(x) == LET p == parse_dt(x) IN IF p.ok THEN IsoFormat(p.date) ELSE Empty

\* the cleaning of one line: Word stripped, POS and Review Date normalised
clean_row(r) ==
    [r EXCEPT ![1] = Strip(r[1]), ![2] = norm_pos(r[2]), ![ReviewDateCol] = _norm_date(r[ReviewDateCol])]

RECURSIVE clean_rows(_)
clean_rows(rows) ==
    IF rows = <<>> THEN <<>> ELSE <<clean_row(rows[1])>> \o clean_rows(Tail(rows))

\* df.drop_duplicates(subset=["Word", "Meaning"]): the first line of each exact pair
drop_duplicates(rows) ==
    LET keep == { i \in 1..Len(rows) :
                    \A j \in 1..(i - 1) : ~(rows[j][1] = rows[i][1] /\ rows[j][3] = rows[i][3]) }
        RECURSIVE Pick(_)
        Pick(i) == IF i > Len(rows) THEN <<>>
                   ELSE (IF i \in keep THEN <<rows[i]>> ELSE <<>>) \o Pick(i + 1)
    IN  Pick(1)

\* a variant of the filter loop that does not remember the keys of the batch
import_filter_step_noseen(acc, r, cachekeys, now) ==
    LET w   == Strip(r[1])
        m   == Strip(r[3])
        key == _normalize_key(w, m)
    IN  IF w = Empty \/ m = Empty THEN acc
        ELSE IF key \in cachekeys THEN acc
        ELSE [seen_batch |-> acc.seen_batch,
              to_append  |-> Append(acc.to_append,
                                    [r EXCEPT ![1] = w, ![3] = m,
                                              ![ReviewDateCol] = review_date_or_today(r[ReviewDateCol], now)])]

\* one line of the filter loop: skipped, or appended and remembered in seen_batch
import_filter_step(acc, r, cachekeys, now) ==
    LET w   == Strip(r[1])
        m   == Strip(r[3])
        key == _normalize_key(w, m)
    IN  IF w = Empty \/ m = Empty THEN acc
        ELSE IF key \in acc.seen_batch THEN acc
        ELSE IF key \in cachekeys THEN acc
        ELSE [seen_batch |-> acc.seen_batch \cup {key},
              to_append  |-> Append(acc.to_append,
                                    [r EXCEPT ![1] = w, ![3] = m,
                                              ![ReviewDateCol] = review_date_or_today(r[ReviewDateCol], now)])]

RECURSIVE import_filter(_, _, _, _, _)
import_filter(rows, i, acc, cachekeys, now) ==
    IF i > Len(rows) THEN acc
    ELSE import_filter(rows, i + 1, import_filter_step(acc, rows[i], cachekeys, now), cachekeys, now)

\* the cache update after the batched append:  (_key_cache or set()).add((w, m))
\* an empty set is falsy, so the keys then go into a fresh set that is dropped
cache_after_import(cache, seen_batch) ==
    IF cache.is_none \/ cache.keys = {} THEN cache ELSE CacheOf(cache.keys \cup seen_batch)

\* required = {"Word", "POS", "Meaning"}
required_columns == {H_Word, H_POS, H_Meaning}

\* missing = required - set(df.columns)
missing_columns(header) == required_columns \ { header[i] : i \in 1..Len(header) }

\* r.get(name, ""): the cell under the column of that name, "" without such a column
frame_row(header, line) ==
    [k \in 1..NCols |->
        IF ColIndex(header, EXPECTED_HEADERS[k]) = 0 THEN Empty
        ELSE line[ColIndex(header, EXPECTED_HEADERS[k])]]

\* the lines of a CSV file as 9-tuples in the column order of EXPECTED_HEADERS
frame_rows(file) == [i \in 1..Len(file.rows) |-> frame_row(file.header, file.rows[i])]

\* a variant that raises only when every required column is missing
import_raises_allmissing(file) == missing_columns(file.header) = required_columns

\* if missing: raise ValueError
import_raises(file) == missing_columns(file.header) # {}

\* the part of the call after the check of the columns
bulk_import_csv(sh, cache, now, csv) ==
    LET df  == drop_duplicates(clean_rows(csv))
        f   == refresh_key_cache(sh)
        acc == import_filter(df, 1, [seen_batch |-> {}, to_append |-> <<>>], f.cache.keys, now)
    IN  IF acc.to_append = <<>>
        THEN [sh |-> f.sh, cache |-> f.cache, count |-> 0, opened |-> f.sh, writes |-> f.writes]
        ELSE [sh |-> append_rows(f.sh, acc.to_append),
              cache |-> cache_after_import(f.cache, acc.seen_batch),
              count |-> Len(acc.to_append), opened |-> f.sh,
              writes |-> f.writes \o <<WriteRec("append_rows", Len(f.sh) + 1, 1, acc.to_append)>>]

---------------------------------------------------------------------------
(* Inputs of the table specification                                       *)

\* number of calls in one run
MaxOps == 2

W_ox == <<"o","x">>

\* same word as W_ox for the dedup key, another text: " Ox"
W_ox_var == <<" ","O","x">>

W_bee == <<"b","e","e">>

W_bee_var == <<" ","B","e","e"," ">>

W_cat == <<"c","a","t">>

W_cat_var == <<"C","a","t">>

W_dog == <<"d","o","g">>

W_blank == <<" ">>

M_a == <<"a">>

M_b == <<"b">>

M_b_var == <<"B">>

M_c == <<"c">>

M_c_var == <<"c"," ">>

M_d == <<"d">>

T_Noun == <<"N","o","u","n">>

T_soon == <<"s","o","o","n">>

D_2025_01_01 == [y |-> 2025, m |-> 1, d |-> 1]

D_2024_12_28 == [y |-> 2024, m |-> 12, d |-> 28]

D_2025_03_01 == [y |-> 2025, m |-> 3, d |-> 1]

Row(word, pos, meaning, rd) == <<word, pos, meaning, Empty, Empty, Empty, Empty, rd, Empty>>

\* a header row typed in lower case: ensure_headers accepts it as it is
LOWER_HEADERS == LowerCells(EXPECTED_HEADERS)

R_ox == Row(W_ox, T_n, M_a, IsoFormat(D_2025_01_01))

R_bee == Row(W_bee, T_n, M_b, IsoFormat(D_2025_01_01))

\* worksheets a run may start from: a new empty tab, a header alone, a header with
\* two records, a record with no header above it, a lower-case header with a record
InitSheets ==
    { <<>>,
      <<EXPECTED_HEADERS>>,
      <<EXPECTED_HEADERS, R_ox, R_bee>>,
      <<R_ox>>,
      <<LOWER_HEADERS, R_ox>> }

Todays == {D_2025_01_01, D_2024_12_28}

\* rows given to add_word
AddInputs ==
    { Row(w, T_n, m, Empty) : w \in {W_ox, W_ox_var, H_Word, Empty}, m \in {M_a, Empty} }
        \cup { Row(W_bee, T_n, M_b, IsoFormat(D_2025_03_01)), Row(W_cat, T_n, M_c, T_soon) }

\* arguments of schedule_next
ScheduleWords == {W_ox, W_ox_var, W_bee, H_Word}

ScheduleDays == {0, 7}

\* as_of of due_reviews: left out, or given
AsOfInputs == { [given |-> FALSE, date |-> D_2025_01_01], [given |-> TRUE, date |-> D_2025_01_01] }

\* pairs asked of exists_word_meaning
ExistsInputs == { <<W_ox_var, M_a>>, <<W_bee, M_b>>, <<W_dog, M_d>> }

\* five lines: two repeat records of the table, one repeats another line
CsvFive ==
    << Row(W_ox, T_Noun, M_a, Empty),
       Row(W_bee_var, T_n, M_b_var, Empty),
       Row(W_cat, T_verb, M_c, IsoFormat(D_2025_03_01)),
       Row(W_cat_var, T_n, M_c_var, Empty),
       Row(W_dog, T_adverb, M_d, T_soon) >>

\* lines without a Word or without a Meaning, then one complete line
CsvGaps ==
    << Row(Empty, T_n, M_a, Empty),
       Row(W_ox, T_n, Empty, Empty),
       Row(W_blank, T_n, M_a, Empty),
       Row(W_ox, T_n, W_blank, Empty),
       Row(W_ox, T_n, M_a, Empty) >>

CsvOne == << Row(W_ox, T_n, M_a, Empty) >>

\* the same line twice
CsvTwice == << Row(W_bee, T_n, M_b, Empty), Row(W_bee, T_n, M_b, Empty) >>

CsvInputs == {CsvFive, CsvGaps, CsvOne, CsvTwice}
\* a file with the required columns only
CsvShort == [header |-> <<H_Word, H_POS, H_Meaning>>, rows |-> << <<W_dog, T_n, M_d>> >>]

\* files that lack a required column
CsvNoMeaning == [header |-> <<H_Word, H_POS, H_Note>>, rows |-> << <<W_dog, T_n, M_d>> >>]

CsvNoWordNoPos == [header |-> <<H_Meaning, H_ReviewDate>>, rows |-> << <<M_d, Empty>> >>]

\* the CSV files given to bulk_import_csv
CsvFiles ==
    { [header |-> EXPECTED_HEADERS, rows |-> c] : c \in CsvInputs }
        \cup {CsvShort, CsvNoMeaning, CsvNoWordNoPos}


---------------------------------------------------------------------------
(* The table specification                                                 *)

\* every request of the call was answered at the first attempt
NoFault == [call |-> "none", code |-> 0, handling |-> "none", sleeps |-> 0]

\* no second caller
NoConc == [start |-> <<>>, procs |-> <<>>]

\* enrich.py is not in use
NoEnrich == [pc |-> "off"]

RxIdle == [phase |-> "idle", wrapper |-> "none", i |-> 0, delay |-> 0,
           attempts |-> <<>>, sleeps |-> <<>>, bases |-> <<>>, result |-> [kind |-> "none", code |-> 0, msg |-> <<>>],
           call_no |-> 0, slept_before |-> FALSE]

Init ==
    /\ sheet \in InitSheets
    /\ key_cache = CacheNone
    /\ today \in Todays
    /\ last = NoObs
    /\ prev = NoObs
    /\ nops = 0
    /\ rx = RxIdle
    /\ fault = NoFault
    /\ conc = NoConc
    /\ en = NoEnrich

Step(obs) ==
    /\ last' = obs
    /\ prev' = last
    /\ nops' = nops + 1
    /\ UNCHANGED <<today, rx, fault, conc, en>>

AddWord ==
    /\ nops < MaxOps
    /\ \E row \in AddInputs :
          LET r == add_word(sheet, key_cache, today, row)
          IN  /\ sheet' = r.sh
              /\ key_cache' = r.cache
              /\ Step(Obs("add_word", row, 0, <<>>, r.ret, 0, sheet, key_cache, r.opened, r.writes))

BulkImportCsv ==
    /\ nops < MaxOps
    /\ \E file \in CsvFiles :
          IF import_raises(file)
          THEN /\ UNCHANGED <<sheet, key_cache>>
               /\ Step(Obs("bulk_import_csv", file.header, 0, file.rows, "raise", 0, sheet, key_cache,
                           <<>>, <<>>))
          ELSE LET csv == frame_rows(file)
                   r   == bulk_import_csv(sheet, key_cache, today, csv)
               IN  /\ sheet' = r.sh
                   /\ key_cache' = r.cache
                   /\ Step(Obs("bulk_import_csv", file.header, 0, csv, "int", r.count, sheet, key_cache,
                               r.opened, r.writes))

ScheduleNext ==
    /\ nops < MaxOps
    /\ \E word \in ScheduleWords, days \in ScheduleDays :
          LET r == schedule_next(sheet, today, word, days)
          IN  /\ sheet' = r.sh
              /\ UNCHANGED key_cache
              /\ Step(Obs("schedule_next", Row(word, Empty, Empty, Empty), days, <<>>, r.ret, 0,
                          sheet, key_cache, r.opened, r.writes))

ExistsWordMeaning ==
    /\ nops < MaxOps
    /\ \E p \in ExistsInputs :
          LET r == exists_word_meaning(sheet, key_cache, p[1], p[2])
          IN  /\ sheet' = r.sh
              /\ key_cache' = r.cache
              /\ Step(Obs("exists_word_meaning", Row(p[1], Empty, p[2], Empty), 0, <<>>,
                          IF r.found THEN "True" ELSE "False", 0, sheet, key_cache, r.sh, r.writes))

RefreshKeyCache ==
    /\ nops < MaxOps
    /\ LET r == refresh_key_cache(sheet)
       IN  /\ sheet' = r.sh
           /\ key_cache' = r.cache
           /\ Step(Obs("refresh_key_cache", EmptyRow, 0, <<>>, "None", 0, sheet, key_cache, r.sh, r.writes))

OpenWs ==
    /\ nops < MaxOps
    /\ LET r == open_ws(sheet)
       IN  /\ sheet' = r.sh
           /\ UNCHANGED key_cache
           /\ Step(Obs("open_ws", EmptyRow, 0, <<>>, "None", 0, sheet, key_cache, r.sh, r.writes))

\* as_of: None (today is taken) or a date
DueReviews ==
    /\ nops < MaxOps
    /\ \E arg \in AsOfInputs :
          LET as_of == IF arg.given THEN arg.date ELSE today
              r     == due_reviews(sheet, as_of)
          IN  /\ sheet' = r.sh
              /\ UNCHANGED key_cache
              /\ Step(Obs("due_reviews", Row(Empty, Empty, Empty, IsoFormat(as_of)), 0, r.records,
                          "frame", Len(r.records), sheet, key_cache, r.opened, r.writes))

Next ==
    \/ AddWord
    \/ BulkImportCsv
    \/ ScheduleNext
    \/ ExistsWordMeaning
    \/ RefreshKeyCache
    \/ OpenWs
    \/ DueReviews

Spec == Init /\ [][Next]_vars

---------------------------------------------------------------------------
(* The backoff wrappers _retry_gsheet (gsheets.py) and _retry_http         *)
(* (enrich.py).  Times are in milliseconds.                                *)

\* max_tries: int = 5
MaxTries == 5

\* base: float = 0.6
BaseMs == 600

\* factor: float = 2.0
Factor == 2

\* jitter: float = 0.2
JitterMs == 200

\* values of random.random() * jitter that the model draws, in [0, jitter)
JitterSamples == {0, JitterMs - 1}

\* retry_on_status of _retry_http
retry_on_status == {429, 500, 502, 503, 504}

\* the texts _retry_gsheet looks for in str(e).lower()
RetryNeedles ==
    { <<"4","2","9">>,
      <<"5","0","0">>,
      <<"5","0","2">>,
      <<"5","0","3">>,
      <<"5","0","4">>,
      <<"r","a","t","e","l","i","m","i","t">>,
      <<"r","a","t","e"," ","l","i","m","i","t">> }

\* what one attempt of the wrapped function does:
\*   "ok"            it returns a value (for _retry_http a non-Response value)
\*   "response"      requests.Response with status code
\*   "api_error"     gspread.exceptions.APIError with status code and message msg
\*   "timeout"       requests.Timeout
\*   "connection"    requests.ConnectionError
\*   "request_error" another requests.RequestException (an invalid URL, ...)
\*   "other_error"   any other exception
Outcome(kind, code, msg) == [kind |-> kind, code |-> code, msg |-> msg]

NoOutcome == Outcome("none", 0, Empty)

MsgQuota == <<"Q","u","o","t","a"," ","e","x","c","e","e","d","e","d">>

MsgUnavailable == <<"S","e","r","v","i","c","e"," ","u","n","a","v","a","i","l","a","b","l","e">>

MsgRateLimit == <<"R","a","t","e"," ","L","i","m","i","t"," ","E","x","c","e","e","d","e","d">>

MsgGrid == <<"R","a","n","g","e"," ","(","S","h","e","e","t","1","!","A","1","5","0","0",")"," ","e","x","c","e","e","d","s"," ","g","r","i","d"," ","l","i","m","i","t","s">>

MsgNotFound == <<"R","e","q","u","e","s","t","e","d"," ","e","n","t","i","t","y"," ","w","a","s"," ","n","o","t"," ","f","o","u","n","d">>

MsgNotImplemented == <<"N","o","t"," ","I","m","p","l","e","m","e","n","t","e","d">>

GsheetOutcomes ==
    { Outcome("ok", 0, Empty),
      Outcome("api_error", 429, MsgQuota),
      Outcome("api_error", 503, MsgUnavailable),
      Outcome("api_error", 403, MsgRateLimit),
      Outcome("api_error", 400, MsgGrid),
      Outcome("api_error", 404, MsgNotFound),
      Outcome("api_error", 501, MsgNotImplemented),
      Outcome("timeout", 0, Empty),
      Outcome("connection", 0, Empty),
      Outcome("other_error", 0, Empty) }

HttpOutcomes ==
    { Outcome("response", 200, Empty),
      Outcome("response", 404, Empty),
      Outcome("response", 429, Empty),
      Outcome("response", 503, Empty),
      Outcome("timeout", 0, Empty),
      Outcome("connection", 0, Empty),
      Outcome("request_error", 0, Empty),
      Outcome("other_error", 0, Empty) }

\* decimal digits of a status code
CodeText(code) == <<DigitChar((code \div 100) % 10), DigitChar((code \div 10) % 10), DigitChar(code % 10)>>

\* str(e) of an APIError: the status code and the message of the response
ApiErrorText(e) == <<"[">> \o CodeText(e.code) \o <<"]", ":", " ">> \o e.msg

\* a variant that looks for the status codes only
gsheet_retryable_codes_only(e) ==
    LET msg == Lower(ApiErrorText(e))
    IN  \E x \in { y \in RetryNeedles : Len(y) = 3 } : Contains(msg, x)

\* retryable = any(x in msg for x in ("429", ..., "ratelimit", "rate limit")), msg = str(e).lower()
gsheet_retryable(e) ==
    LET msg == Lower(ApiErrorText(e))
    IN  \E x \in RetryNeedles : Contains(msg, x)

\* a variant that is off by one
is_last_try_late(i) == i = MaxTries + 1

\* i == max_tries
is_last_try(i) == i = MaxTries

\* time.sleep(delay + random.random() * jitter)
sleep_time(delay, jit) == delay + jit

\* a variant that divides
next_delay_shrink(delay) == delay \div Factor

\* delay *= factor
next_delay(delay) == delay * Factor

\* the state of a call on entry to wrapper(): delay = base, the loop starts at i = 1
RetryEntry(wrapper) ==
    [phase |-> "calling", wrapper |-> wrapper, i |-> 1, delay |-> BaseMs,
     attempts |-> <<>>, sleeps |-> <<>>, bases |-> <<>>, result |-> NoOutcome,
     call_no |-> 1, slept_before |-> FALSE]

\* return fn(*a, **kw)  /  return resp
Returned(r, o) == [r EXCEPT !.phase = "returned", !.result = o, !.attempts = Append(r.attempts, o)]

\* raise
Raised(r, o) == [r EXCEPT !.phase = "raised", !.result = o, !.attempts = Append(r.attempts, o)]

\* sleep, grow the delay, go round the loop; a loop that runs out returns None
SleepAndLoop(r, o, jit) ==
    [r EXCEPT !.attempts = Append(r.attempts, o),
              !.sleeps   = Append(r.sleeps, sleep_time(r.delay, jit)),
              !.bases    = Append(r.bases, r.delay),
              !.delay    = next_delay(r.delay),
              !.i        = r.i + 1,
              !.phase    = IF r.i + 1 > MaxTries THEN "returned" ELSE "calling",
              !.result   = NoOutcome]

\* one iteration of the loop of _retry_gsheet's wrapper
retry_gsheet_step(r, o, jit) ==
    IF o.kind = "ok" THEN Returned(r, o)
    ELSE IF o.kind = "api_error"
    THEN IF ~gsheet_retryable(o) \/ is_last_try(r.i) THEN Raised(r, o)
         ELSE SleepAndLoop(r, o, jit)
    ELSE Raised(r, o)

\* one iteration of the loop of _retry_http's wrapper
retry_http_step(r, o, jit) ==
    IF o.kind = "ok" THEN Returned(r, o)
    ELSE IF o.kind = "response" /\ o.code \notin retry_on_status THEN Returned(r, o)
    ELSE IF o.kind \in {"response", "timeout", "connection", "request_error"}
    THEN IF is_last_try(r.i) THEN Raised(r, o)
         ELSE SleepAndLoop(r, o, jit)
    ELSE Raised(r, o)

RetryInit ==
    /\ sheet = <<>>
    /\ key_cache = CacheNone
    /\ today = D_2025_01_01
    /\ last = NoObs
    /\ prev = NoObs
    /\ nops = 0
    /\ rx \in {RetryEntry("gsheet"), RetryEntry("http")}
    /\ fault = NoFault
    /\ conc = NoConc
    /\ en = NoEnrich

GsheetAttempt ==
    /\ rx.phase = "calling" /\ rx.wrapper = "gsheet"
    /\ \E o \in GsheetOutcomes, jit \in JitterSamples : rx' = retry_gsheet_step(rx, o, jit)
    /\ UNCHANGED <<sheet, key_cache, today, last, prev, nops, fault, conc, en>>

HttpAttempt ==
    /\ rx.phase = "calling" /\ rx.wrapper = "http"
    /\ \E o \in HttpOutcomes, jit \in JitterSamples : rx' = retry_http_step(rx, o, jit)
    /\ UNCHANGED <<sheet, key_cache, today, last, prev, nops, fault, conc, en>>

\* number of calls through a wrapper in one run
MaxRetryCalls == 2

\* a variant in which the delay of the call before is carried over
next_call_entry_keeps_delay(r, wrapper) ==
    [RetryEntry(wrapper) EXCEPT !.call_no = r.call_no + 1,
                                !.slept_before = r.slept_before \/ r.sleeps # <<>>,
                                !.delay = r.delay]

\* the next call of a wrapped function: wrapper() is entered afresh, delay is
\* a local variable set to base; slept_before remembers whether a call before slept
next_call_entry(r, wrapper) ==
    [RetryEntry(wrapper) EXCEPT !.call_no = r.call_no + 1,
                                !.slept_before = r.slept_before \/ r.sleeps # <<>>]

\* the caller makes another wrapped call after the one that ended
NextWrappedCall ==
    /\ rx.phase \in {"returned", "raised"}
    /\ rx.call_no < MaxRetryCalls
    /\ \E wrapper \in {"gsheet", "http"} : rx' = next_call_entry(rx, wrapper)
    /\ UNCHANGED <<sheet, key_cache, today, last, prev, nops, fault, conc, en>>

RetryNext ==
    \/ GsheetAttempt
    \/ HttpAttempt
    \/ NextWrappedCall

\* the calling thread keeps running: an attempt that can be made is made
RetrySpec == RetryInit /\ [][RetryNext]_vars /\ WF_vars(RetryNext)

---------------------------------------------------------------------------
(* The operations when one remote request fails at its first attempt       *)
(*                                                                         *)
(* The requests a call sends are: row_values (ensure_headers reads row 1), *)
(* update_header / insert_row (ensure_headers writes), get_all_records     *)
(* (read_df), findall (schedule_next), append_row, append_rows and         *)
(* update_cell.  One of the requests the call makes is answered with a     *)
(* transient API error at its first attempt and would succeed at the next. *)

\* the errors injected: rate limit, service unavailable
TransientFaults == { Outcome("api_error", 429, MsgQuota), Outcome("api_error", 503, MsgUnavailable) }

\* the requests sent through a function decorated with @_retry_gsheet()
wrapped_requests == {"append_row", "append_rows", "update_cell"}

\* what becomes of an error at the first attempt of a request: the wrapper sleeps
\* and calls again, or ensure_headers' try/except swallows it, or it propagates
fault_handling(call, e) ==
    IF call \in wrapped_requests
    THEN IF e.kind = "api_error" /\ gsheet_retryable(e) /\ ~is_last_try(1)
         THEN "retried" ELSE "propagated"
    ELSE IF call = "row_values" THEN "swallowed"
    ELSE "propagated"

\* the outcome of a call in one shape
Res(sh, cache, ret, count, csv, opened, writes) ==
    [sh |-> sh, cache |-> cache, ret |-> ret, count |-> count, csv |-> csv,
     opened |-> opened, writes |-> writes]

\* the requests open_ws sends on a worksheet
open_requests(sh) ==
    LET w == open_ws(sh).writes
    IN  {"row_values"} \cup { w[i].call : i \in 1..Len(w) }

\* the worksheet the rest of the call works on: when the read of row 1 raised,
\* ensure_headers has taken row 1 for empty and written the header over it
fault_start(h, sh) == IF h = "swallowed" THEN ensure_headers_read_failed(sh).sh ELSE sh

\* the outcome of a call in which request `call` failed at its first attempt and
\* the failure was handled as h.  run is the outcome of the call on fault_start.
\* A retried request succeeds at the second attempt; a propagated error ends the
\* call where it stands: before the header write, or after open_ws and before
\* anything else is written or assigned.
with_fault(call, h, sh, cache, run) ==
    LET o == open_ws(sh)
        f == ensure_headers_read_failed(sh)
    IN  IF h = "retried" THEN run
        ELSE IF h = "swallowed"
        THEN [run EXCEPT !.opened = f.sh, !.writes = f.writes \o run.writes]
        ELSE IF call \in {"update_header", "insert_row"}
        THEN Res(sh, cache, "raise", 0, <<>>, <<>>, <<>>)
        ELSE Res(o.sh, cache, "raise", 0, <<>>, o.sh, o.writes)

\* number of calls in one run with a failing request
MaxFaultOps == 1

FaultInit ==
    /\ sheet \in InitSheets
    /\ key_cache = CacheNone
    /\ today = D_2025_01_01
    /\ last = NoObs
    /\ prev = NoObs
    /\ nops = 0
    /\ rx = RxIdle
    /\ fault = NoFault
    /\ conc = NoConc
    /\ en = NoEnrich

\* the call ends: what it left behind and what became of the failed request
\* (res and h are bound by the caller to the values of with_fault and fault_handling)
FaultStep(op, row, days, call, e, h, res) ==
    /\ sheet' = res.sh
    /\ key_cache' = res.cache
    /\ last' = Obs(op, row, days, res.csv, res.ret, res.count, sheet, key_cache, res.opened, res.writes)
    /\ prev' = last
    /\ nops' = nops + 1
    /\ fault' = [call |-> call, code |-> e.code, handling |-> h,
                 sleeps |-> IF h \in {"retried", "retried_applied"} THEN 1 ELSE IF h = "exhausted" THEN MaxTries - 1 ELSE 0]
    /\ UNCHANGED <<today, rx, conc, en>>

open_ws_res(sh, cache) ==
    LET r == open_ws(sh) IN Res(r.sh, cache, "None", 0, <<>>, r.sh, r.writes)

FaultyOpenWs ==
    /\ nops < MaxFaultOps
    /\ \E call \in open_requests(sheet), e \in TransientFaults :
       \E h \in {fault_handling(call, e)} :
       \E run \in {open_ws_res(fault_start(h, sheet), key_cache)} :
       \E res \in {with_fault(call, h, sheet, key_cache, run)} :
          FaultStep("open_ws", EmptyRow, 0, call, e, h, res)

add_word_res(sh, cache, now, row) ==
    LET r == add_word(sh, cache, now, row) IN Res(r.sh, r.cache, r.ret, 0, <<>>, r.opened, r.writes)

\* the requests add_word sends, given its outcome
add_word_requests(sh, cache, row, run) ==
    open_requests(sh)
        \cup (IF add_word_checks_dup(row[1], row[3]) /\ cache.is_none THEN {"get_all_records"} ELSE {})
        \cup (IF run.ret = "True" THEN {"append_row"} ELSE {})

FaultyAddWord ==
    /\ nops < MaxFaultOps
    /\ \E row \in AddInputs, e \in TransientFaults :
       \E call \in {"row_values", "update_header", "insert_row", "get_all_records", "append_row"} :
       \E h \in {fault_handling(call, e)} :
       \E run \in {add_word_res(fault_start(h, sheet), key_cache, today, row)} :
       \E res \in {with_fault(call, h, sheet, key_cache, run)} :
          /\ call \in add_word_requests(sheet, key_cache, row, run)
          /\ FaultStep("add_word", row, 0, call, e, h, res)

schedule_next_res(sh, cache, now, word, days) ==
    LET r == schedule_next(sh, now, word, days) IN Res(r.sh, cache, r.ret, 0, <<>>, r.opened, r.writes)

\* the requests schedule_next sends, given its outcome
schedule_next_requests(sh, run) ==
    open_requests(sh) \cup {"findall"}
        \cup (IF run.ret = "True" THEN {"update_cell"} ELSE {})

FaultyScheduleNext ==
    /\ nops < MaxFaultOps
    /\ \E word \in ScheduleWords, days \in ScheduleDays, e \in TransientFaults :
       \E call \in {"row_values", "update_header", "insert_row", "findall", "update_cell"} :
       \E h \in {fault_handling(call, e)} :
       \E run \in {schedule_next_res(fault_start(h, sheet), key_cache, today, word, days)} :
       \E res \in {with_fault(call, h, sheet, key_cache, run)} :
          /\ call \in schedule_next_requests(sheet, run)
          /\ FaultStep("schedule_next", Row(word, Empty, Empty, Empty), days, call, e, h, res)

bulk_import_res(sh, cache, now, csv) ==
    LET r == bulk_import_csv(sh, cache, now, csv)
    IN  Res(r.sh, r.cache, "int", r.count, csv, r.opened, r.writes)

\* the requests bulk_import_csv sends, given its outcome
bulk_import_requests(sh, run) ==
    open_requests(sh) \cup {"get_all_records"}
        \cup (IF run.count > 0 THEN {"append_rows"} ELSE {})

FaultyBulkImportCsv ==
    /\ nops < MaxFaultOps
    /\ \E file \in { f \in CsvFiles : ~import_raises(f) }, e \in TransientFaults :
       \E call \in {"row_values", "update_header", "insert_row", "get_all_records", "append_rows"} :
       \E h \in {fault_handling(call, e)} :
       \E run \in {bulk_import_res(fault_start(h, sheet), key_cache, today, frame_rows(file))} :
       \E res \in {with_fault(call, h, sheet, key_cache, run)} :
          /\ call \in bulk_import_requests(sheet, run)
          /\ FaultStep("bulk_import_csv", file.header, 0, call, e, h, res)

due_reviews_res(sh, cache, as_of) ==
    LET r == due_reviews(sh, as_of)
    IN  Res(r.sh, cache, "frame", Len(r.records), r.records, r.opened, r.writes)

FaultyDueReviews ==
    /\ nops < MaxFaultOps
    /\ \E call \in open_requests(sheet) \cup {"get_all_records"}, e \in TransientFaults :
       \E h \in {fault_handling(call, e)} :
       \E run \in {due_reviews_res(fault_start(h, sheet), key_cache, today)} :
       \E res \in {with_fault(call, h, sheet, key_cache, run)} :
          FaultStep("due_reviews", Row(Empty, Empty, Empty, IsoFormat(today)), 0, call, e, h, res)

\* what becomes of an error that ends the append: a transient error that came
\* back at every attempt is raised after the last one, any other at once
append_failure_handling(e) ==
    IF e.kind = "api_error" /\ gsheet_retryable(e) THEN "exhausted" ELSE "propagated"

AppendFailures == TransientFaults \cup { Outcome("api_error", 404, MsgNotFound) }

\* a variant of add_word that records the key before it appends
add_word_append_raises_keyed(sh, cache, now, row) ==
    LET o == open_ws(sh)
        e == IF add_word_checks_dup(row[1], row[3])
             THEN exists_word_meaning(o.sh, cache, row[1], row[3])
             ELSE [sh |-> o.sh, writes |-> <<>>, cache |-> cache, found |-> FALSE]
    IN  [sent |-> ~e.found,
         res  |-> Res(e.sh, CacheOf(e.cache.keys \cup {_normalize_key(row[1], row[3])}),
                      "raise", 0, <<>>, o.sh, o.writes \o e.writes)]

\* add_word when _append_row raises: the call ends there, before the cache
\* update; sent tells whether the call gets as far as the append
add_word_append_raises(sh, cache, now, row) ==
    LET o == open_ws(sh)
        e == IF add_word_checks_dup(row[1], row[3])
             THEN exists_word_meaning(o.sh, cache, row[1], row[3])
             ELSE [sh |-> o.sh, writes |-> <<>>, cache |-> cache, found |-> FALSE]
    IN  [sent |-> ~e.found,
         res  |-> Res(e.sh, e.cache, "raise", 0, <<>>, o.sh, o.writes \o e.writes)]

FailedAppendAddWord ==
    /\ nops < MaxFaultOps
    /\ \E row \in AddInputs, e \in AppendFailures :
       \E r \in {add_word_append_raises(sheet, key_cache, today, row)} :
          /\ r.sent
          /\ FaultStep("add_word", row, 0, "append_row", e, append_failure_handling(e), r.res)

\* bulk_import_csv when _append_rows raises: the cache is the refreshed one
bulk_import_append_raises(sh, cache, now, csv) ==
    LET df  == drop_duplicates(clean_rows(csv))
        f   == refresh_key_cache(sh)
        acc == import_filter(df, 1, [seen_batch |-> {}, to_append |-> <<>>], f.cache.keys, now)
    IN  [sent |-> acc.to_append # <<>>,
         res  |-> Res(f.sh, f.cache, "raise", 0, csv, f.sh, f.writes)]

FailedAppendBulkImportCsv ==
    /\ nops < MaxFaultOps
    /\ \E file \in { f \in CsvFiles : ~import_raises(f) }, e \in AppendFailures :
       \E r \in {bulk_import_append_raises(sheet, key_cache, today, frame_rows(file))} :
          /\ r.sent
          /\ FaultStep("bulk_import_csv", file.header, 0, "append_rows", e, append_failure_handling(e), r.res)

\* _append_row through its wrapper when the first attempt is answered with a
\* transient error and the second succeeds: the store may or may not have
\* applied the request of the first attempt
append_row_retried(sh, row, applied) ==
    IF applied THEN append_rows(append_rows(sh, <<row>>), <<row>>) ELSE append_rows(sh, <<row>>)

\* add_word when the store applied the append whose answer was a 5xx error
RetriedAppendApplied ==
    /\ nops < MaxFaultOps
    /\ \E row \in AddInputs, e \in { f \in TransientFaults : f.code >= 500 } :
       \E r \in {add_word_append_raises(sheet, key_cache, today, row)} :
       LET ordered == [row EXCEPT ![ReviewDateCol] = review_date_or_today(row[ReviewDateCol], today)]
       IN  /\ r.sent
           /\ fault_handling("append_row", e) = "retried"
           /\ FaultStep("add_word", row, 0, "append_row", e, "retried_applied",
                        Res(append_row_retried(r.res.sh, ordered, TRUE),
                            CacheOf(r.res.cache.keys \cup {_normalize_key(row[1], row[3])}),
                            "True", 0, <<>>, r.res.opened,
                            r.res.writes \o <<WriteRec("append_row", Len(r.res.sh) + 1, 1, <<ordered>>),
                                              WriteRec("append_row", Len(r.res.sh) + 2, 1, <<ordered>>)>>))

FaultNext ==
    \/ FaultyOpenWs
    \/ FaultyAddWord
    \/ FaultyScheduleNext
    \/ FaultyBulkImportCsv
    \/ FaultyDueReviews
    \/ FailedAppendAddWord
    \/ FailedAppendBulkImportCsv
    \/ RetriedAppendApplied

FaultSpec == FaultInit /\ [][FaultNext]_vars

---------------------------------------------------------------------------
(* Two callers at once.  Each caller is a process of its own: it has its   *)
(* own _key_cache (None at the start) and makes one call.  A call is the   *)
(* sequence of its remote requests; between two requests of one caller the *)
(* other caller's requests may reach the table.  There is no lock.         *)

Callers == {1, 2}

\* a caller: the call it makes, the requests still to send (todo), and the local
\* variables of the call.  before is the row the call's update_cell found in
\* place when it wrote (kept for the properties).
Caller(op, row, days, csv, todo) ==
    [op |-> op, row |-> row, days |-> days, csv |-> csv, todo |-> todo,
     first_row |-> <<>>, cache |-> CacheNone, row_idx |-> 0, to_append |-> <<>>,
     seen_batch |-> {}, ret |-> "None", before |-> <<>>]

\* open_ws(): ensure_headers reads row 1 first
CallOpenWs == Caller("open_ws", EmptyRow, 0, <<>>, <<"row_values">>)

\* add_word(row): open_ws; with a Word and a Meaning the first dedup test of the
\* process reads the table (refresh_key_cache -> read_df -> open_ws, get_all_records)
CallAddWord(row) ==
    Caller("add_word", row, 0, <<>>,
           <<"row_values">>
              \o (IF add_word_checks_dup(row[1], row[3]) THEN <<"row_values", "get_all_records">> ELSE <<>>)
              \o <<"append_row">>)

\* schedule_next(word, days): open_ws, findall, _update_cell
CallScheduleNext(word, days) ==
    Caller("schedule_next", Row(word, Empty, Empty, Empty), days, <<>>,
           <<"row_values", "findall", "update_cell">>)

\* bulk_import_csv: refresh_key_cache (open_ws, get_all_records), _append_rows
CallBulkImportCsv(csv) ==
    Caller("bulk_import_csv", EmptyRow, 0, csv, <<"row_values", "get_all_records", "append_rows">>)

\* the calls a caller may make
ConcCalls ==
    { CallOpenWs,
      CallAddWord(Row(W_ox, T_n, M_a, Empty)),
      CallAddWord(Row(W_dog, T_n, M_d, Empty)),
      CallScheduleNext(W_ox, 7),
      CallBulkImportCsv(CsvOne) }

ConcInit ==
    /\ sheet \in InitSheets
    /\ key_cache = CacheNone
    /\ today = D_2025_01_01
    /\ last = NoObs
    /\ prev = NoObs
    /\ nops = 0
    /\ rx = RxIdle
    /\ fault = NoFault
    /\ en = NoEnrich
    /\ \E c1 \in ConcCalls, c2 \in ConcCalls :
          conc = [start |-> sheet, procs |-> <<c1, c2>>]

NextRequest(p) == IF conc.procs[p].todo = <<>> THEN "none" ELSE Head(conc.procs[p].todo)

\* caller p goes on as q
Proceed(p, q) ==
    /\ conc' = [conc EXCEPT !.procs[p] = q]
    /\ UNCHANGED <<key_cache, today, last, prev, nops, rx, fault, en>>

\* first_row = ws.row_values(1); what ensure_headers will do is decided here
RowValues(p) ==
    /\ NextRequest(p) = "row_values"
    /\ \E first_row \in {row_values(sheet, 1)} :
          Proceed(p, [conc.procs[p] EXCEPT
                        !.first_row = first_row,
                        !.todo = (IF ensure_headers_from(sheet, first_row).writes = <<>>
                                  THEN <<>> ELSE <<"header_write">>) \o Tail(@)])
    /\ UNCHANGED sheet

\* ws.update("A1:I1", ...) or ws.insert_row(..., index=1), as decided from first_row
HeaderWrite(p) ==
    /\ NextRequest(p) = "header_write"
    /\ sheet' = ensure_headers_from(sheet, conc.procs[p].first_row).sh
    /\ Proceed(p, [conc.procs[p] EXCEPT !.todo = Tail(@)])

\* ws.get_all_records(): the cache is built; add_word tests its key, the import
\* filters its lines
GetAllRecords(p) ==
    /\ NextRequest(p) = "get_all_records"
    /\ \E c \in {conc.procs[p]}, keys \in {_build_key_cache(read_df(sheet))} :
          IF c.op = "add_word"
          THEN IF _normalize_key(c.row[1], c.row[3]) \in keys
               THEN Proceed(p, [c EXCEPT !.cache = CacheOf(keys), !.todo = <<>>, !.ret = "False"])
               ELSE Proceed(p, [c EXCEPT !.cache = CacheOf(keys), !.todo = Tail(@)])
          ELSE \E acc \in {import_filter(drop_duplicates(clean_rows(c.csv)), 1,
                                         [seen_batch |-> {}, to_append |-> <<>>], keys, today)} :
                  IF acc.to_append = <<>>
                  THEN Proceed(p, [c EXCEPT !.cache = CacheOf(keys), !.todo = <<>>, !.ret = "0"])
                  ELSE Proceed(p, [c EXCEPT !.cache = CacheOf(keys), !.todo = Tail(@),
                                            !.to_append = acc.to_append,
                                            !.seen_batch = acc.seen_batch])
    /\ UNCHANGED sheet

\* cells = ws.findall(word, in_column=1)
FindAll(p) ==
    /\ NextRequest(p) = "findall"
    /\ \E c \in {conc.procs[p]}, cells \in {findall(sheet, conc.procs[p].row[1], WordCol)} :
          IF cells = {}
          THEN Proceed(p, [c EXCEPT !.todo = <<>>, !.ret = "False"])
          ELSE Proceed(p, [c EXCEPT !.todo = Tail(@), !.row_idx = SetMin(cells)])
    /\ UNCHANGED sheet

\* _append_row(ws, ordered) / _append_rows(ws, to_append)
AppendRows(p) ==
    /\ NextRequest(p) \in {"append_row", "append_rows"}
    /\ \E c \in {conc.procs[p]} :
          IF c.op = "add_word"
          THEN /\ sheet' = append_rows(sheet, <<[c.row EXCEPT ![ReviewDateCol] =
                                                    review_date_or_today(c.row[ReviewDateCol], today)]>>)
               /\ Proceed(p, [c EXCEPT !.todo = Tail(@), !.ret = "True",
                                       !.cache = CacheOf(c.cache.keys \cup {_normalize_key(c.row[1], c.row[3])})])
          ELSE /\ sheet' = append_rows(sheet, c.to_append)
               /\ Proceed(p, [c EXCEPT !.todo = Tail(@), !.ret = "int",
                                       !.cache = cache_after_import(c.cache, c.seen_batch)])

\* _update_cell(ws, row_idx, 8, next_date)
UpdateCell(p) ==
    /\ NextRequest(p) = "update_cell"
    /\ \E c \in {conc.procs[p]} :
          /\ sheet' = update_cell(sheet, c.row_idx, ReviewDateCol, IsoFormat(AddDays(today, c.days)))
          /\ Proceed(p, [c EXCEPT !.todo = Tail(@), !.ret = "True",
                                  !.before = IF c.row_idx <= Len(sheet) THEN sheet[c.row_idx] ELSE EmptyRow])

ConcNext ==
    \E p \in Callers :
        \/ RowValues(p)
        \/ HeaderWrite(p)
        \/ GetAllRecords(p)
        \/ FindAll(p)
        \/ AppendRows(p)
        \/ UpdateCell(p)

ConcSpec == ConcInit /\ [][ConcNext]_vars

---------------------------------------------------------------------------
(* enrich.py: the enrichment pipeline.  Texts are sequences of characters. *)
(* A dictionary entry is its list of meanings; a meaning is                *)
(* [partOfSpeech, definitions], a definition [definition, example]; a key  *)
(* that is missing in the JSON is the empty text here.                     *)

LowerSet == { LowerChars[i] : i \in 1..Len(LowerChars) }

\* str.strip("."): the dots at both ends go
RECURSIVE StripDots(_)
StripDots(s) ==
    IF s = <<>> THEN s
    ELSE IF Head(s) = "." THEN StripDots(Tail(s))
    ELSE IF s[Len(s)] = "." THEN StripDots(SubSeq(s, 1, Len(s) - 1))
    ELSE s

\* _POS_MAP_CANON restricted to the tags the model meets, as pairs <<key, value>>
POS_MAP_CANON ==
    { <<<<"n">>, T_n>>, <<<<"v">>, T_v>>,
      <<<<"a","d","j">>, T_adj>>, <<<<"a","d","v">>, T_adv>>,
      <<T_noun, T_n>>, <<T_verb, T_v>>, <<T_adjective, T_adj>>, <<T_adverb, T_adv>> }

\* the short tags that only get a dot
POS_SHORT ==
    { <<"n">>, <<"v">>, <<"a","d","j">>, <<"a","d","v">>, <<"p","r","e","p">>, <<"p","r","o","n">>, <<"c","o","n","j">>, <<"i","n","t","e","r","j">> }

\* _norm_pos(pos)
_norm_pos(pos) ==
    LET p == StripDots(Strip(Lower(pos)))
    IN  IF \E kv \in POS_MAP_CANON : kv[1] = p
        THEN (CHOOSE kv \in POS_MAP_CANON : kv[1] = p)[2]
        ELSE IF p \in POS_SHORT THEN p \o <<".">>
        ELSE pos

\* the sense _pick_best_sense returns: found is FALSE for {} / None
Sense(found, pos, def, example) == [found |-> found, pos |-> pos, def |-> def, example |-> example]

NoSense == Sense(FALSE, Empty, Empty, Empty)

\* pick_from_meaning(m)
pick_from_meaning(m) ==
    LET pos  == Lower(m.partOfSpeech)
        defs == m.definitions
        withex == { i \in 1..Len(defs) : defs[i].definition # Empty /\ defs[i].example # Empty }
    IN  IF defs = <<>> THEN NoSense
        ELSE IF withex # {}
        THEN Sense(TRUE, pos, defs[SetMin(withex)].definition, defs[SetMin(withex)].example)
        ELSE IF defs[1].definition # Empty
        THEN Sense(TRUE, pos, defs[1].definition, defs[1].example)
        ELSE NoSense

\* the first meaning among those of the indexes idx that yields a sense
first_picked(meanings, idx) ==
    LET ok == { i \in idx : pick_from_meaning(meanings[i]).found }
    IN  IF ok = {} THEN NoSense ELSE pick_from_meaning(meanings[SetMin(ok)])

\* _pick_best_sense(meanings, preferred_pos); preferred_pos is Empty for None
_pick_best_sense(meanings, preferred_pos) ==
    LET pref == first_picked(meanings,
                             { i \in 1..Len(meanings) : Lower(meanings[i].partOfSpeech) = preferred_pos })
    IN  IF meanings = <<>> THEN NoSense
        ELSE IF preferred_pos # Empty /\ pref.found THEN pref
        ELSE first_picked(meanings, 1..Len(meanings))

\* re.fullmatch(r"[A-Za-z\-]+", w)
IsSynonymToken(w) ==
    /\ w # <<>>
    /\ \A i \in 1..Len(w) : w[i] \in LowerSet \/ w[i] \in UpperSet \/ w[i] = "-"

\* keep: the stripped tokens that match, in lower case
RECURSIVE synonyms_keep(_)
synonyms_keep(raw) ==
    IF raw = <<>> THEN <<>>
    ELSE (IF IsSynonymToken(Strip(Head(raw))) THEN <<Lower(Strip(Head(raw)))>> ELSE <<>>)
            \o synonyms_keep(Tail(raw))

\* out: the first occurrence of each token of keep
synonyms_unique(keep) ==
    LET first == { i \in 1..Len(keep) : \A j \in 1..(i - 1) : keep[j] # keep[i] }
        RECURSIVE Pick(_)
        Pick(i) == IF i > Len(keep) THEN <<>>
                   ELSE (IF i \in first THEN <<keep[i]>> ELSE <<>>) \o Pick(i + 1)
    IN  Pick(1)

\* out[:8]
SynonymCap == 8

\* a variant that cuts after the cap is passed
synonyms_cut_late(out) == IF Len(out) <= SynonymCap + 1 THEN out ELSE SubSeq(out, 1, SynonymCap + 1)

synonyms_cut(out) == IF Len(out) <= SynonymCap THEN out ELSE SubSeq(out, 1, SynonymCap)

\* _fetch_datamuse_synonyms, from the words of a response that is ok
datamuse_synonyms(raw) == synonyms_cut(synonyms_unique(synonyms_keep(raw)))

\* " | ".join(synonyms)
RECURSIVE JoinPipe(_)
JoinPipe(syns) ==
    IF syns = <<>> THEN Empty
    ELSE IF Len(syns) = 1 THEN syns[1]
    ELSE syns[1] \o <<" ", "|", " ">> \o JoinPipe(Tail(syns))

---------------------------------------------------------------------------
(* One enrich_word call, from one external call to the next.               *)

Def(d, ex) == [definition |-> d, example |-> ex]

Meaning(pos, defs) == [partOfSpeech |-> pos, definitions |-> defs]

X_ex == <<"e","x">>

X_zh == <<"z","h">>

W_run == <<"r","u","n">>

\* meanings of entries dictionaryapi.dev may answer with
E_ox == <<Meaning(T_noun, <<Def(M_a, X_ex)>>)>>

E_run == <<Meaning(T_verb, <<Def(M_b, Empty)>>), Meaning(T_Noun, <<Def(M_c_var, X_ex)>>)>>

E_bare == <<Meaning(T_noun, <<>>)>>

\* the JSON body: "list" is a non-empty list whose first item is an object,
\* "empty" is [], "object" is a body that is not a list
Data(shape, meanings) == [shape |-> shape, meanings |-> meanings]

NoData == Data("empty", <<>>)

\* what a request ends in: an exception out of _get, a response that is
\* not ok, or a response that is ok with its body
Response(kind, body) == [kind |-> kind, body |-> body]

DictResponses ==
    { Response("raise", NoData), Response("not_ok", NoData),
      Response("ok", NoData), Response("ok", Data("object", <<>>)) }
    \cup { Response("ok", Data("list", e)) : e \in {E_ox, E_run, E_bare} }

\* the "word" values of a rel_syn response
Y_mixed == <<<<" ","B","i","g"," ">>, <<"b","i","g">>, <<"i","c","e"," ","c","r","e","a","m">>, <<"w","e","l","l","-","o","f","f">>, <<"x","2">>, <<>>, <<"B","I","G">>, <<"H","u","g","e">>>>

Y_many == <<<<"a">>, <<"b">>, <<"a">>, <<"c">>, <<"d">>, <<"e">>, <<"f">>, <<"g">>, <<"h">>, <<"i">>, <<"j">>>>

SynResponses ==
    { Response("raise", <<>>), Response("not_ok", <<>>) }
    \cup { Response("ok", y) : y \in {<<>>, Y_mixed, Y_many} }

\* the tags of the first item of an md=p response (no item: no tags)
PosResponses ==
    { Response("raise", <<>>), Response("not_ok", <<>>) }
    \cup { Response("ok", tags) : tags \in {<<>>, <<<<"n">>>>, <<<<"u">>, <<"v">>>>} }

\* GoogleTranslator(...).translate(en_text)
TranslateResponses == { Response("raise", Empty), Response("ok", X_zh), Response("ok", <<" ">>) }

\* the payload dict: which of its four keys are set, and their values
Payload(has_dict, data, dict_error, has_syn, synonyms, syn_error) ==
    [has_dict |-> has_dict, data |-> data, dict_error |-> dict_error,
     has_syn |-> has_syn, synonyms |-> synonyms, syn_error |-> syn_error]

EmptyPayload == Payload(FALSE, NoData, FALSE, FALSE, <<>>, FALSE)

\* bool(payload)
Truthy(p) == p.has_dict \/ p.dict_error \/ p.has_syn \/ p.syn_error

\* a file of CACHE_DIR: missing, not JSON, or a saved payload
File(kind, payload) == [kind |-> kind, payload |-> payload]

NoFile == File("missing", EmptyPayload)

EnrichWords == { W_ox_var, W_run, W_blank, Empty }

DiskKeys == { Lower(Strip(w)) : w \in EnrichWords } \ {Empty}

NoDisk == [k \in DiskKeys |-> NoFile]

P_found == Payload(TRUE, Data("list", E_ox), FALSE, TRUE, <<M_b>>, FALSE)

P_failed == Payload(FALSE, NoData, TRUE, FALSE, <<>>, TRUE)

Disks ==
    { NoDisk } \cup { [NoDisk EXCEPT ![W_ox] = f] :
                        f \in {File("json", P_found), File("json", P_failed), File("corrupt", EmptyPayload)} }

\* CACHE_ENABLED, _has_translator and the files of CACHE_DIR when the module is loaded
EnrichEnvs ==
    { [cache_enabled |-> FALSE, has_translator |-> ht, disk |-> NoDisk] : ht \in BOOLEAN }
    \cup { [cache_enabled |-> TRUE, has_translator |-> ht, disk |-> d] : ht \in BOOLEAN, d \in Disks }

\* _cache_load(word): None is EmptyPayload
_cache_load(env, word) ==
    IF ~env.cache_enabled THEN EmptyPayload
    ELSE IF env.disk[Lower(word)].kind = "json" THEN env.disk[Lower(word)].payload
    ELSE EmptyPayload

\* _cache_save(word, payload)
_cache_save(env, disk, word, payload) ==
    IF ~env.cache_enabled THEN disk
    ELSE [disk EXCEPT ![Lower(word)] = File("json", payload)]

\* an entry of the log of external calls
Call(name, ok) == [call |-> name, ok |-> ok]

NetworkCalls == {"dictionaryapi", "datamuse", "translate"}

\* the record enrich_word returns
Record(word, pos, meaning, example, synonyms, source) ==
    [Word |-> word, POS |-> pos, Meaning |-> meaning, Example |-> example,
     Synonyms |-> synonyms, Topic |-> Empty, Source |-> source, ReviewDate |-> Empty, Note |-> Empty]

NoRecord == Record(Empty, Empty, Empty, Empty, Empty, Empty)

T_auto == <<"a","u","t","o">>

T_dictionaryapi == <<"d","i","c","t","i","o","n","a","r","y","a","p","i",".","d","e","v">>

\* the module loaded, no call made yet
EnrichIdle(env) ==
    [pc |-> "idle", cache_enabled |-> env.cache_enabled, has_translator |-> env.has_translator,
     disk |-> env.disk, arg |-> Empty, word |-> Empty, want_chinese |-> FALSE, hit |-> FALSE,
     payload |-> EmptyPayload, syn_raw |-> <<>>, purpose |-> "none", preferred_pos |-> Empty,
     pos |-> Empty, meaning_en |-> Empty, meaning_out |-> Empty, example |-> Empty,
     source |-> T_auto, log |-> <<>>, raised |-> FALSE, record |-> NoRecord, ncalls |-> 0]

\* a variant of the return statement without the last default
finish_no_default(e, predicted) ==
    [e EXCEPT !.pc = "done",
              !.record = Record(e.word,
                                IF e.pos # Empty THEN e.pos ELSE predicted,
                                e.meaning_out, e.example, JoinPipe(e.payload.synonyms), e.source)]

\* the return statement once POS is known; predicted is predict_pos(word), Empty for None
finish(e, predicted) ==
    [e EXCEPT !.pc = "done",
              !.record = Record(e.word,
                                IF e.pos # Empty THEN e.pos
                                ELSE IF predicted # Empty THEN predicted ELSE T_n,
                                e.meaning_out, e.example, JoinPipe(e.payload.synonyms), e.source)]

\* "POS": pos or (predict_pos(word) or "n."): predict_pos runs only when pos is empty
after_meaning(e) ==
    IF e.pos # Empty THEN finish(e, Empty)
    ELSE [e EXCEPT !.pc = "pos_datamuse", !.purpose = "predict"]

\* meaning_out: _translate_or_fallback reaches the translator only with a
\* non-blank text and the translator installed
after_parse(e) ==
    IF e.want_chinese /\ Strip(e.meaning_en) # Empty /\ e.has_translator
    THEN [e EXCEPT !.pc = "translate"]
    ELSE after_meaning([e EXCEPT !.meaning_out = IF e.want_chinese THEN Strip(e.meaning_en)
                                                  ELSE e.meaning_en])

\* the payload is known: the parse block asks for the preferred POS only
\* when data is a non-empty list of objects
after_payload(e) ==
    IF e.payload.has_dict /\ e.payload.data.shape = "list"
    THEN [e EXCEPT !.pc = "pos_datamuse", !.purpose = "parse"]
    ELSE after_parse(e)

\* _datamuse_preferred_pos has returned pp (Empty for None)
after_preferred(e, pp) ==
    IF e.purpose = "parse"
    THEN LET best == _pick_best_sense(e.payload.data.meanings, pp)
         IN  after_parse([e EXCEPT !.preferred_pos = pp,
                                   !.pos = _norm_pos(best.pos),
                                   !.meaning_en = Strip(best.def),
                                   !.example = Strip(best.example),
                                   !.source = T_dictionaryapi])
    ELSE finish(e, IF pp # Empty THEN _norm_pos(pp) ELSE Empty)

\* the first recognised tag of the md=p answer, as the name returned
tag_pos(tags) ==
    LET known == { i \in 1..Len(tags) : tags[i] \in {<<"n">>, <<"v">>, <<"a","d","j">>, <<"a","d","v">>} }
        t     == tags[SetMin(known)]
    IN  IF known = {} THEN Empty
        ELSE IF t = <<"n">> THEN T_noun
        ELSE IF t = <<"v">> THEN T_verb
        ELSE IF t = <<"a","d","j">> THEN T_adjective
        ELSE T_adverb

\* the fallback of _datamuse_preferred_pos: the first partOfSpeech among the four names
meanings_pos(meanings) ==
    LET known == { i \in 1..Len(meanings) :
                     Lower(meanings[i].partOfSpeech) \in {T_noun, T_verb, T_adjective, T_adverb} }
    IN  IF known = {} THEN Empty ELSE Lower(meanings[SetMin(known)].partOfSpeech)

MaxEnrichCalls == 1

\* enrich_word(word, want_chinese) up to its first external call
StartEnrich ==
    /\ en.pc \in {"idle", "done"}
    /\ en.ncalls < MaxEnrichCalls
    /\ nops = 0
    /\ \E arg \in EnrichWords, want_chinese \in BOOLEAN :
       LET word   == Strip(arg)
           e0     == [EnrichIdle(en) EXCEPT !.arg = arg, !.word = word, !.want_chinese = want_chinese,
                                            !.ncalls = en.ncalls + 1]
           cached == _cache_load(en, word)
           e1     == [e0 EXCEPT !.log = IF en.cache_enabled THEN <<Call("cache_read", TRUE)>> ELSE <<>>]
       IN  en' = IF word = Empty THEN [e0 EXCEPT !.pc = "done", !.raised = TRUE]
                 ELSE IF Truthy(cached) THEN after_payload([e1 EXCEPT !.hit = TRUE, !.payload = cached])
                 ELSE [e1 EXCEPT !.pc = "fetch_dictionaryapi"]
    /\ UNCHANGED <<sheet, key_cache, today, last, prev, nops, rx, fault, conc>>

\* payload["dictionaryapi"] = _fetch_dictionaryapi(word), or the error text
FetchDictionaryapi ==
    /\ en.pc = "fetch_dictionaryapi"
    /\ \E r \in DictResponses :
          en' = [en EXCEPT !.pc = "fetch_synonyms",
                           !.log = Append(en.log, Call("dictionaryapi", r.kind = "ok")),
                           !.payload = IF r.kind = "ok"
                                       THEN [en.payload EXCEPT !.has_dict = TRUE, !.data = r.body]
                                       ELSE [en.payload EXCEPT !.dict_error = TRUE]]
    /\ UNCHANGED <<sheet, key_cache, today, last, prev, nops, rx, fault, conc>>

\* payload["synonyms"] = _fetch_datamuse_synonyms(word), or the error text; then _cache_save
FetchDatamuseSynonyms ==
    /\ en.pc = "fetch_synonyms"
    /\ \E r \in SynResponses :
       LET payload == IF r.kind = "raise" THEN [en.payload EXCEPT !.syn_error = TRUE]
                      ELSE [en.payload EXCEPT !.has_syn = TRUE,
                                              !.synonyms = IF r.kind = "ok" THEN datamuse_synonyms(r.body)
                                                           ELSE <<>>]
       IN  en' = after_payload([en EXCEPT !.payload = payload,
                                          !.syn_raw = r.body,
                                          !.disk = _cache_save(en, en.disk, en.word, payload),
                                          !.log = Append(en.log, Call("datamuse", r.kind = "ok"))
                                                     \o (IF en.cache_enabled
                                                         THEN <<Call("cache_write", TRUE)>> ELSE <<>>)])
    /\ UNCHANGED <<sheet, key_cache, today, last, prev, nops, rx, fault, conc>>

\* _datamuse_preferred_pos: the md=p request
PosDatamuse ==
    /\ en.pc = "pos_datamuse"
    /\ \E r \in PosResponses :
       LET pp == IF r.kind = "ok" THEN tag_pos(r.body) ELSE Empty
           e1 == [en EXCEPT !.log = Append(en.log, Call("datamuse", r.kind = "ok"))]
       IN  en' = IF pp # Empty THEN after_preferred(e1, pp)
                 ELSE [e1 EXCEPT !.pc = "pos_dictionaryapi"]
    /\ UNCHANGED <<sheet, key_cache, today, last, prev, nops, rx, fault, conc>>

\* _datamuse_preferred_pos: the fallback request to dictionaryapi.dev
PosDictionaryapi ==
    /\ en.pc = "pos_dictionaryapi"
    /\ \E r \in DictResponses :
       LET pp == IF r.kind = "ok" /\ r.body.shape = "list" THEN meanings_pos(r.body.meanings) ELSE Empty
       IN  en' = after_preferred([en EXCEPT !.log = Append(en.log, Call("dictionaryapi", r.kind = "ok"))], pp)
    /\ UNCHANGED <<sheet, key_cache, today, last, prev, nops, rx, fault, conc>>

\* _translate_or_fallback: the call of the translator
Translate ==
    /\ en.pc = "translate"
    /\ \E r \in TranslateResponses :
       LET zh == IF r.kind = "ok" THEN Strip(r.body) ELSE Empty
       IN  en' = after_meaning([en EXCEPT !.log = Append(en.log, Call("translate", r.kind = "ok")),
                                          !.meaning_out = IF zh # Empty THEN zh ELSE Strip(en.meaning_en)])
    /\ UNCHANGED <<sheet, key_cache, today, last, prev, nops, rx, fault, conc>>

\* the import command of a session, before any word was enriched or after an
\* enrich_word call that raised; enrich.py and gsheets.py share no state, so
\* the other orders add nothing
ImportCsv ==
    /\ en.pc = "idle" \/ (en.pc = "done" /\ en.raised)
    /\ nops = 0
    /\ BulkImportCsv

CommandInit ==
    /\ sheet = <<EXPECTED_HEADERS, R_ox, R_bee>>
    /\ key_cache = CacheNone
    /\ today = D_2025_01_01
    /\ last = NoObs
    /\ prev = NoObs
    /\ nops = 0
    /\ rx = RxIdle
    /\ fault = NoFault
    /\ conc = NoConc
    /\ \E env \in EnrichEnvs : en = EnrichIdle(env)

CommandNext ==
    \/ StartEnrich
    \/ FetchDictionaryapi
    \/ FetchDatamuseSynonyms
    \/ PosDatamuse
    \/ PosDictionaryapi
    \/ Translate
    \/ ImportCsv

CommandSpec == CommandInit /\ [][CommandNext]_vars

---------------------------------------------------------------------------
(* Properties of the table specification                                   *)

\* the dedup key of a stored row
RowKey(row) == _normalize_key(row[1], row[3])

\* the rows below row 1
DataRowIndexes(sh) == 2..Len(sh)

RowsWithKey(sh, key) == { i \in DataRowIndexes(sh) : RowKey(sh[i]) = key }

WritesOf(obs, call) == SelectSeq(obs.writes, LAMBDA w : w.call = call)

\* C1 (as claimed): add_word called twice in a row with the same Word and Meaning
\* leaves exactly one stored row for the pair; the second call returns False and
\* appends nothing.
C1_AddTwiceOneRow ==
    ( /\ prev.op = "add_word" /\ last.op = "add_word"
      /\ prev.row[1] = last.row[1] /\ prev.row[3] = last.row[3] )
    => /\ last.ret = "False"
       /\ WritesOf(last, "append_row") = <<>>
       /\ Cardinality(RowsWithKey(sheet, RowKey(last.row))) = 1

\* C2 (as claimed): no two data rows of the table share a normalized
\* (Word, Meaning) key, whatever add_word and bulk_import_csv calls were made.
C2_UniqueKeys ==
    \A i, j \in DataRowIndexes(sheet) : i # j => RowKey(sheet[i]) # RowKey(sheet[j])

\* the keys of the lines of a CSV that have a Word and a Meaning after trimming
CsvKeys(csv) ==
    { RowKey(csv[i]) : i \in { k \in 1..Len(csv) : Strip(csv[k][1]) # Empty /\ Strip(csv[k][3]) # Empty } }

\* the keys the refresh inside the import read from the table it opened
KeysReadByImport(obs) == _build_key_cache(read_df(obs.opened))

SeqToSet(q) == { q[i] : i \in 1..Len(q) }

C4_CacheHoldsImported ==
    (last.op = "bulk_import_csv" /\ last.count > 0) =>
        /\ ~key_cache.is_none
        /\ \A i \in (Len(last.opened) + 1)..Len(sheet) : RowKey(sheet[i]) \in key_cache.keys

\* C9 (as claimed): schedule_next for a word that matches no cell of the Word
\* column returns False and sends no write of any kind, header writes included.
C9_NoWriteAtAll ==
    (last.op = "schedule_next" /\ findall(last.opened, last.row[1], WordCol) = {}) =>
        /\ last.ret = "False"
        /\ last.writes = <<>>

\* C9 (amended): such a call returns False and updates no cell; the only write it
\* can send is the header repair of open_ws, and none when row 1 already is the
\* expected header.
C9_NoCellWrite ==
    (last.op = "schedule_next" /\ findall(last.opened, last.row[1], WordCol) = {}) =>
        /\ last.ret = "False"
        /\ WritesOf(last, "update_cell") = <<>>
        /\ \A i \in 1..Len(last.writes) : last.writes[i].call \in {"update_header", "insert_row"}
        /\ Len(last.writes) <= 1
        /\ sheet = last.opened
        /\ (last.pre_sheet # <<>> /\ last.pre_sheet[1] = EXPECTED_HEADERS)
               => (last.writes = <<>> /\ sheet = last.pre_sheet)

\* C9 witness: a call for a word that is in no Word cell, on a table with records
C9_Witness ==
    /\ last.op = "schedule_next"
    /\ findall(last.opened, last.row[1], WordCol) = {}
    /\ Len(last.pre_sheet) >= 3
    /\ last.ret = "False"

\* C10 (as claimed): when a data row's Word equals the word exactly, schedule_next
\* writes today + days into the Review Date cell of the first such row, returns
\* True and changes no other cell.
C10_FirstDataRowUpdated ==
    (last.op = "schedule_next"
       /\ \E r \in DataRowIndexes(last.opened) : last.opened[r][WordCol] = last.row[1]) =>
        LET first == SetMin({ r \in DataRowIndexes(last.opened) : last.opened[r][WordCol] = last.row[1] })
        IN  /\ last.ret = "True"
            /\ sheet = [last.opened EXCEPT ![first][ReviewDateCol] = IsoFormat(AddDays(today, last.days))]

---------------------------------------------------------------------------
(* Properties of the backoff wrappers                                      *)

Terminal == rx.phase \in {"returned", "raised"}

\* a success of the wrapped function
IsSuccess(o) == o.kind = "ok" \/ (o.kind = "response" /\ o.code = 200)

TransientStatuses == {429, 500, 502, 503, 504}

\* a failure with a transient status (for HTTP also a timeout or a lost connection)
IsTransientFailure(w, o) ==
    \/ w = "gsheet" /\ o.kind = "api_error" /\ o.code \in TransientStatuses
    \/ w = "http" /\ o.kind = "response" /\ o.code \in TransientStatuses
    \/ w = "http" /\ o.kind \in {"timeout", "connection"}

AllTransient(n) == \A j \in 1..n : IsTransientFailure(rx.wrapper, rx.attempts[j])

\* C5: a call that fails k < max_tries times with a transient failure and then
\* succeeds returns the success value after k+1 attempts and k sleeps, each sleep
\* at least as long as the base delay of the sleep before it; after k transient
\* failures in a row the call is still trying.
C5_TransientThenSuccess ==
    LET n == Len(rx.attempts)
    IN  /\ (n >= 1 /\ IsSuccess(rx.attempts[n]) /\ AllTransient(n - 1)) =>
              /\ rx.phase = "returned"
              /\ rx.result = rx.attempts[n]
              /\ Len(rx.sleeps) = n - 1
              /\ \A j \in 2..(n - 1) : rx.sleeps[j] >= rx.bases[j - 1]
        /\ (n < MaxTries /\ AllTransient(n) /\ rx.phase # "idle") =>
              /\ rx.phase = "calling"
              /\ Len(rx.sleeps) = n
              /\ \A j \in 2..n : rx.sleeps[j] >= rx.bases[j - 1]

\* C5 witness: two transient failures, then success on the third attempt
C5_Witness ==
    /\ rx.wrapper = "gsheet" /\ rx.phase = "returned"
    /\ Len(rx.attempts) = 3 /\ AllTransient(2) /\ IsSuccess(rx.attempts[3])
    /\ Len(rx.sleeps) = 2 /\ rx.sleeps[2] >= rx.bases[1]

IsRateLimitMessage(o) ==
    LET msg == Lower(o.msg)
    IN  Contains(msg, <<"r","a","t","e"," ","l","i","m","i","t">>) \/ Contains(msg, <<"r","a","t","e","l","i","m","i","t">>)

\* a non-transient error of a worksheet call: an API error that is neither a
\* rate limit nor a 5xx, or an error that is no API error
IsNonTransientGsheet(o) ==
    \/ o.kind = "api_error" /\ o.code # 429 /\ o.code \notin 500..599 /\ ~IsRateLimitMessage(o)
    \/ o.kind \in {"timeout", "connection", "request_error", "other_error"}

\* C6 (as claimed): a worksheet call whose first attempt fails with a
\* non-transient error makes exactly one attempt, never sleeps, and the error
\* reaches the caller, whatever the text of its message.
C6_NonTransientOneAttempt ==
    (rx.wrapper = "gsheet" /\ Len(rx.attempts) >= 1 /\ IsNonTransientGsheet(rx.attempts[1])) =>
        /\ Len(rx.attempts) = 1
        /\ rx.sleeps = <<>>
        /\ rx.phase = "raised"
        /\ rx.result = rx.attempts[1]

C7_Bounded ==
    LET n == Len(rx.attempts)
    IN  /\ n <= MaxTries
        /\ Len(rx.sleeps) <= MaxTries - 1
        /\ Terminal => Len(rx.sleeps) = n - 1
        /\ (n = MaxTries /\ AllTransient(n)) =>
              (rx.phase = "raised" /\ rx.result = rx.attempts[n])

\* C7: every wrapped call ends; it makes at most max_tries attempts and at most
\* max_tries - 1 sleeps, does not sleep after its last attempt, and when all
\* max_tries attempts failed transiently the caller receives the failure of the last one.
C7_BoundedAndTerminates == [](C7_Bounded) /\ <>Terminal

\* C7 witness: max_tries transient failures, the last one raised
C7_Witness ==
    /\ Len(rx.attempts) = MaxTries /\ AllTransient(MaxTries)
    /\ rx.phase = "raised" /\ Len(rx.sleeps) = MaxTries - 1

\* the transient classes the specification names for the worksheet wrapper
IsSpecTransientGsheet(o) ==
    \/ o.kind = "api_error" /\ (o.code = 429 \/ o.code \in 500..599 \/ IsRateLimitMessage(o))
    \/ o.kind \in {"timeout", "connection"}

\* the transient classes the worksheet wrapper retries
IsApiTransientGsheet(o) ==
    o.kind = "api_error" /\ (o.code \in TransientStatuses \/ IsRateLimitMessage(o))

\* attempt j was followed by a sleep and another attempt (or the next attempt is due)
RetriedAfter(j) == Len(rx.sleeps) >= j /\ (Len(rx.attempts) > j \/ rx.phase = "calling")

---------------------------------------------------------------------------
(* Properties of due_reviews                                               *)

\* the data rows of a worksheet, in row order
DataRows(sh) == IF Len(sh) <= 1 THEN <<>> ELSE SubSeq(sh, 2, Len(sh))

\* the rows whose Review Date cell parses as a date on or before as_of, in order
RECURSIVE DueRows(_, _)
DueRows(rows, as_of) ==
    IF rows = <<>> THEN <<>>
    ELSE LET p == parse_dt(rows[1][ReviewDateCol])
         IN  (IF p.ok /\ DateLE(p.date, as_of) THEN <<rows[1]>> ELSE <<>>)
                \o DueRows(Tail(rows), as_of)

\* C11 (as claimed): due_reviews(as_of) returns exactly the records of the table
\* whose Review Date parses as a date on or before as_of, in row order, and does
\* not raise.
C11_DueExactly ==
    last.op = "due_reviews" =>
        /\ last.ret = "frame"
        /\ last.csv = DueRows(DataRows(sheet), parse_dt(last.row[ReviewDateCol]).date)

---------------------------------------------------------------------------
(* Properties of the header repair                                         *)

\* the first nine cells of row 1 are the canonical header, letter for letter
HeaderExact(sh) ==
    /\ Len(sh) >= 1
    /\ SubSeq(sh[1], 1, NCols) = EXPECTED_HEADERS

\* C12 (as claimed): open_ws on a table whose first row is empty writes the
\* canonical header into row 1 and leaves the rows below as they are; on a table
\* whose first row is not empty and is not the canonical header it inserts the
\* canonical header as a new row 1 and keeps every prior row, one row lower.
C12_HeaderRepair ==
    last.op = "open_ws" =>
        LET pre == last.pre_sheet
        IN  /\ row_values(pre, 1) = <<>> =>
                  /\ HeaderExact(sheet)
                  /\ Len(sheet) = (IF Len(pre) = 0 THEN 1 ELSE Len(pre))
                  /\ \A r \in 2..Len(pre) : sheet[r] = pre[r]
            /\ (row_values(pre, 1) # <<>> /\ ~HeaderExact(pre)) =>
                  sheet = <<EXPECTED_HEADERS>> \o pre

---------------------------------------------------------------------------
(* Properties of the stored Review Date                                    *)

\* the text is a calendar date
IsValidDate(x) == parse_dt(x).ok

\* C17 (as claimed): whatever Review Date text and day count the caller gives,
\* every data row that add_word or bulk_import_csv appends and every data-row
\* cell that schedule_next writes holds a Review Date that is a calendar date.
C17_StoredReviewDateValid ==
    last.op \in {"add_word", "bulk_import_csv", "schedule_next"} =>
        \A i \in 1..Len(last.writes) :
            LET w == last.writes[i]
            IN  /\ w.call \in {"append_row", "append_rows"} =>
                      \A k \in 1..Len(w.rows) : IsValidDate(w.rows[k][ReviewDateCol])
                /\ (w.call = "update_cell" /\ w.r >= 2) =>
                      IsValidDate(sheet[w.r][w.c])

---------------------------------------------------------------------------
(* Properties of the validation of inputs                                  *)

\* bulk_import_csv on a file that lacks one of the columns Word, POS, Meaning
\* raises, sends no request to the table (no open, no read, no append) and
\* leaves the table and the dedup key cache as they were; a file that has the
\* three columns does not raise
ImportFailsFast ==
    last.op = "bulk_import_csv" =>
        LET lacking == \E n \in {H_Word, H_POS, H_Meaning} :
                           \A i \in 1..Len(last.row) : last.row[i] # n
        IN  /\ lacking <=> (last.ret = "raise")
            /\ lacking =>
                  /\ last.writes = <<>>
                  /\ last.opened = <<>>
                  /\ sheet = last.pre_sheet
                  /\ key_cache = last.pre_cache

---------------------------------------------------------------------------
(* Properties of the operations under a failing request                    *)

\* C18 (as claimed): whichever request of a call fails at its first attempt with
\* a transient error (reading all rows, reading, writing or inserting the header
\* row, locating a word, appending, updating a cell), the failure is retried:
\* it is neither propagated to the caller nor swallowed.
C18_EveryRequestRetried ==
    (fault.call # "none" /\ fault.handling # "exhausted"
        /\ \E e \in TransientFaults : e.code = fault.code) =>
        /\ fault.handling \in {"retried", "retried_applied"}
        /\ fault.sleeps >= 1
        /\ last.ret # "raise"

\* row i of the worksheet holds a record: it lies below row 1, or it is a first
\* row that is neither empty nor a header
IsDataRow(sh, i) ==
    \/ i >= 2
    \/ i = 1 /\ row_values(sh, 1) # <<>> /\ NormCells(sh[1]) # NORM_EXPECTED

\* the two rows are equal, except perhaps in the Review Date cell
SameButReviewDate(a, b) == \A c \in 1..NCols : c # ReviewDateCol => a[c] = b[c]

\* C19 (as claimed): whatever the call and whether or not one of its requests
\* failed, every data row the table held before the call is still in the table
\* after it (in place or one row lower), unchanged except that schedule_next may
\* have written its Review Date cell.
C19_DataRowsKept ==
    last.op # "none" =>
        \A i \in 1..Len(last.pre_sheet) :
            IsDataRow(last.pre_sheet, i) =>
                \E j \in {i, i + 1} :
                    /\ j <= Len(sheet)
                    /\ \/ sheet[j] = last.pre_sheet[i]
                       \/ /\ last.op = "schedule_next" /\ last.ret = "True"
                          /\ SameButReviewDate(sheet[j], last.pre_sheet[i])

---------------------------------------------------------------------------
(* Properties of two callers at once                                       *)

\* a copy of the header row lies among the data rows
StrayHeader == \E i \in 2..Len(sheet) : sheet[i] = EXPECTED_HEADERS

\* a data row the table held at the start is no longer in it (its Review Date
\* cell apart, which schedule_next may write)
RowLost ==
    \E i \in 1..Len(conc.start) :
        /\ IsDataRow(conc.start, i)
        /\ ~\E j \in 1..Len(sheet) : SameButReviewDate(sheet[j], conc.start[i])

\* a schedule_next wrote the Review Date cell of a row whose Word is not its word
WrongRowWritten ==
    \E p \in Callers :
        /\ conc.procs[p].op = "schedule_next" /\ conc.procs[p].ret = "True"
        /\ conc.procs[p].before[WordCol] # conc.procs[p].row[WordCol]

\* C16 (as claimed): however the requests of two callers interleave, no data row
\* is lost or overwritten, no header row ends up among the data rows, and no
\* schedule_next writes a row other than one it matched (a duplicate data row is
\* the only anomaly).
C16_OnlyDuplicateRows == ~StrayHeader /\ ~RowLost /\ ~WrongRowWritten

---------------------------------------------------------------------------
(* Properties of the synonym collection                                    *)

\* the text of a response item as the collection compares it
SynNorm(raw, i) == Lower(Strip(raw[i]))

\* the items of the response made of letters and hyphens once trimmed
SynValid(raw) ==
    { i \in 1..Len(raw) :
        /\ Strip(raw[i]) # <<>>
        /\ \A j \in 1..Len(Strip(raw[i])) :
              Strip(raw[i])[j] \in LowerSet \cup UpperSet \cup {"-"} }

\* where a token is first seen in the response
SynFirst(raw, t) == SetMin({ i \in SynValid(raw) : SynNorm(raw, i) = t })

\* C20: the synonym list collected from an answer of the secondary source
\* holds only lower-case tokens of letters and hyphens, each once, in the
\* order in which they are first seen in the answer, and it is the first 8
\* of the surviving tokens
C20_SynonymsFiltered ==
    (en.pc # "idle" /\ ~en.hit /\ en.payload.has_syn) =>
        LET out == en.payload.synonyms
            raw == en.syn_raw
        IN  /\ Len(out) <= 8
            /\ \A k \in 1..Len(out) :
                  /\ out[k] # <<>>
                  /\ \A j \in 1..Len(out[k]) : out[k][j] \in LowerSet \cup {"-"}
                  /\ \E i \in SynValid(raw) : SynNorm(raw, i) = out[k]
            /\ \A k, l \in 1..Len(out) : k < l =>
                  /\ out[k] # out[l]
                  /\ SynFirst(raw, out[k]) < SynFirst(raw, out[l])
            /\ \A i \in SynValid(raw) :
                  \/ \E k \in 1..Len(out) : out[k] = SynNorm(raw, i)
                  \/ Len(out) = 8 /\ SynFirst(raw, out[8]) < i

\* an answer with a repeated token and ten different ones was cut to eight
C20_Witness ==
    /\ en.pc = "done"
    /\ ~en.hit
    /\ en.syn_raw = Y_many
    /\ Len(en.payload.synonyms) = 8
    /\ en.record.Synonyms = JoinPipe(SubSeq(en.payload.synonyms, 1, 8))

---------------------------------------------------------------------------
(* Properties of enrich_word                                               *)

\* the call has returned or raised
EnrichReturned == en.pc = "done" /\ en.ncalls > 0

\* every request sent to dictionaryapi.dev and to Datamuse during the call failed
SourcesFailed ==
    \A i \in 1..Len(en.log) : en.log[i].call \in {"dictionaryapi", "datamuse"} => ~en.log[i].ok

\* the record of a word nothing is known about
BlankRecord ==
    /\ en.record.Word = Strip(en.arg)
    /\ en.record.POS = T_n
    /\ en.record.Meaning = Empty
    /\ en.record.Source = T_auto

\* C13 as stated: enrich_word with a non-empty word never raises, whichever
\* external calls fail, and when both external sources fail the record has
\* the trimmed word, POS "n.", an empty Meaning and Source "auto"
C13_SpecBlankWhenSourcesFail ==
    (EnrichReturned /\ Strip(en.arg) # Empty) =>
        /\ ~en.raised
        /\ SourcesFailed => BlankRecord

\* C13, amended: enrich_word with a non-empty word never raises, whichever
\* external calls fail, and returns a record with the trimmed word; when both
\* external sources fail and no cached payload was loaded, the record has
\* POS "n.", an empty Meaning and Source "auto"
C13_BlankWhenSourcesFailNoCache ==
    (EnrichReturned /\ Strip(en.arg) # Empty) =>
        /\ ~en.raised
        /\ en.record.Word = Strip(en.arg)
        /\ (SourcesFailed /\ ~en.hit) => BlankRecord

\* all four requests of a call without cache failed, and the record is blank
C13_Witness ==
    /\ EnrichReturned
    /\ en.arg = W_ox_var
    /\ ~en.hit
    /\ ~en.raised
    /\ Len(en.log) >= 4
    /\ SourcesFailed
    /\ \E i \in 1..Len(en.log) : en.log[i].call = "dictionaryapi"
    /\ \E i \in 1..Len(en.log) : en.log[i].call = "datamuse"
    /\ BlankRecord

\* C14: with caching enabled and a cached payload for the lower-cased word,
\* enrich_word without translation sends no request at all, neither to
\* dictionaryapi.dev nor to Datamuse, from the cache hit to the return
C14_NoNetworkAfterCacheHit ==
    (en.pc # "idle" /\ en.cache_enabled /\ en.hit /\ ~en.want_chinese) =>
        \A i \in 1..Len(en.log) : en.log[i].call \notin NetworkCalls

\* enrich_word on a word that is blank once trimmed raises with no cache file
\* read or written and no request sent
EnrichFailsFast ==
    (EnrichReturned /\ Strip(en.arg) = Empty) => (en.raised /\ en.log = <<>>)

\* C15: validation errors fail fast: bulk_import_csv on a file lacking one of
\* the columns Word, POS, Meaning raises before any request to the table and
\* leaves the dedup key cache unchanged; enrich_word on a word that is empty
\* after trimming raises before any cache lookup or network call
C15_ValidationFailsFast == ImportFailsFast /\ EnrichFailsFast

\* a blank word was refused, then a file without the Meaning column was refused
C15_Witness ==
    /\ EnrichReturned
    /\ en.arg = W_blank
    /\ en.raised
    /\ en.cache_enabled
    /\ last.op = "bulk_import_csv"
    /\ last.row = CsvNoMeaning.header
    /\ last.ret = "raise"
    /\ sheet = <<EXPECTED_HEADERS, R_ox, R_bee>>

---------------------------------------------------------------------------
(* Properties of the choice of the sense                                   *)

\* the sense groups in scope: those of the guessed part of speech when there
\* is one, all groups otherwise
GroupsInScope(meanings, guess) ==
    LET match == { i \in 1..Len(meanings) : Lower(meanings[i].partOfSpeech) = guess }
    IN  IF guess # Empty /\ match # {} THEN match ELSE 1..Len(meanings)

\* the senses in scope, each as <<group, place in the group>>
SensesInScope(meanings, guess) ==
    { <<i, j>> \in (1..Len(meanings)) \X (1..2) :
        i \in GroupsInScope(meanings, guess) /\ j <= Len(meanings[i].definitions) }

\* the first of a set of senses in source order
FirstSense(S) == CHOOSE p \in S : \A q \in S : p[1] < q[1] \/ (p[1] = q[1] /\ p[2] <= q[2])

\* C21: the sense chosen from the entry is, among the senses in scope (the
\* groups of the guessed part of speech, or all groups in source order when
\* none matches), the first that carries a usage example and otherwise the
\* first that has definition text; one is chosen whenever a sense in scope
\* has definition text
C21_BestSense ==
    (en.pc # "idle" /\ en.source = T_dictionaryapi) =>
        LET meanings == en.payload.data.meanings
            scope    == SensesInScope(meanings, en.preferred_pos)
            sense(p) == meanings[p[1]].definitions[p[2]]
            withex   == { p \in scope : sense(p).example # Empty }
            withdef  == { p \in scope : sense(p).definition # Empty }
            best     == IF withex # {} THEN FirstSense(withex) ELSE FirstSense(withdef)
        IN  IF withex = {} /\ withdef = {}
            THEN en.meaning_en = Empty /\ en.example = Empty
            ELSE /\ en.meaning_en = Strip(sense(best).definition)
                 /\ en.example = Strip(sense(best).example)
                 /\ en.pos = _norm_pos(Lower(meanings[best[1]].partOfSpeech))

---------------------------------------------------------------------------
(* Properties of the dedup key cache                                       *)

\* the calls made so far are calls of the operations that use the cache
CacheOpsOnly ==
    {last.op, prev.op} \subseteq
        {"none", "exists_word_meaning", "add_word", "refresh_key_cache", "bulk_import_csv"}

\* the cache holds the normalized key of every data row of the table
CacheCoversTable ==
    \A r \in 2..Len(sheet) : _normalize_key(sheet[r][WordCol], sheet[r][3]) \in key_cache.keys

\* C22: in a sequence of exists_word_meaning, add_word, refresh_key_cache and
\* bulk_import_csv calls by one actor, whenever the dedup key cache is
\* initialized it holds the normalized key of every data row of the table,
\* whichever operation came first
C22_CacheCoversTable ==
    (nops > 0 /\ CacheOpsOnly /\ ~key_cache.is_none) => CacheCoversTable

---------------------------------------------------------------------------
(* Properties of the dedup key cache when the append fails                 *)

\* the normalized keys of the data rows of the table
TableKeys == { _normalize_key(sheet[r][WordCol], sheet[r][3]) : r \in 2..Len(sheet) }

\* the append of the call failed for good
AppendFailed ==
    /\ fault.call \in {"append_row", "append_rows"}
    /\ fault.handling \in {"propagated", "exhausted"}

\* C23: when the append of add_word or bulk_import_csv fails for good (an error
\* that is not transient, or a transient one at every attempt), the error
\* propagates, no row is written, the dedup key cache holds no key of a row
\* that is not in the table, and a later add_word of a pair of the failed call
\* is carried out, not refused as a duplicate
C23_KeyOnlyAfterAppend ==
    AppendFailed =>
        /\ last.ret = "raise"
        /\ sheet = last.opened
        /\ key_cache.keys \subseteq TableKeys
        /\ last.op = "add_word" => add_word(sheet, key_cache, today, last.row).ret = "True"
        /\ last.op = "bulk_import_csv" =>
              \A i \in 1..Len(last.csv) :
                 LET r == clean_row(last.csv[i])
                 IN  (r[1] # Empty /\ r[3] # Empty /\ _normalize_key(r[1], r[3]) \notin TableKeys)
                        => add_word(sheet, key_cache, today, r).ret = "True"

\* the append of a new pair failed at every attempt after the cache was built
C23_Witness ==
    /\ AppendFailed
    /\ fault.handling = "exhausted"
    /\ fault.sleeps = MaxTries - 1
    /\ last.op = "add_word"
    /\ last.row = Row(W_bee, T_n, M_b, IsoFormat(D_2025_03_01))
    /\ last.pre_sheet = <<EXPECTED_HEADERS>>
    /\ last.pre_cache.is_none
    /\ ~key_cache.is_none
    /\ last.ret = "raise"

---------------------------------------------------------------------------
(* Properties of the header row                                            *)

\* C24: after open_ws has returned, row 1 of the table holds the canonical
\* header exactly (the nine names, in order, with their spelling and case),
\* whatever row 1 held before
C24_HeaderExactAfterOpen ==
    (last.op = "open_ws" /\ last.ret # "raise") => HeaderExact(sheet)

---------------------------------------------------------------------------
(* Properties of the HTTP backoff wrapper                                  *)

\* a failure of a request that is not transient: a response whose status is
\* an error outside the statuses retried, or a request error that is neither
\* a timeout nor a connection failure
HttpNonTransient(o) ==
    \/ o.kind = "response" /\ o.code >= 400 /\ o.code \notin {429, 500, 502, 503, 504}
    \/ o.kind = "request_error"

\* C25: in _retry_http a request that fails with a failure that is not
\* transient is attempted exactly once: no sleep and no further attempt follow it
C25_HttpNonTransientOnce ==
    rx.wrapper = "http" =>
        \A k \in 1..Len(rx.attempts) :
            HttpNonTransient(rx.attempts[k]) =>
                /\ k = Len(rx.attempts)
                /\ Len(rx.sleeps) < k
                /\ rx.phase \in {"returned", "raised"}

---------------------------------------------------------------------------
(* Properties of the backoff delays                                        *)

RECURSIVE Power(_, _)
Power(b, n) == IF n = 0 THEN 1 ELSE b * Power(b, n - 1)

\* C26: within one wrapped call the sleep taken after the k-th failed attempt
\* (1 <= k < max_tries) is base * factor^(k-1) plus a jitter in [0, 0.2 s):
\* 0.6, 1.2, 2.4, 4.8 s without the jitter; every new wrapped call starts again
\* at base, whatever the calls before it did
C26_DelaySchedule ==
    rx.call_no >= 1 =>
        /\ Len(rx.sleeps) = Len(rx.bases)
        /\ Len(rx.sleeps) <= Len(rx.attempts)
        /\ \A k \in 1..Len(rx.sleeps) :
              /\ k < 5
              /\ rx.bases[k] = 600 * Power(2, k - 1)
              /\ rx.bases[k] = <<600, 1200, 2400, 4800>>[k]
              /\ rx.sleeps[k] - rx.bases[k] >= 0
              /\ rx.sleeps[k] - rx.bases[k] < 200

\* a second call slept four times on the same schedule after a call that slept
C26_Witness ==
    /\ rx.call_no = 2
    /\ rx.slept_before
    /\ rx.wrapper = "http"
    /\ rx.bases = <<600, 1200, 2400, 4800>>
    /\ rx.sleeps = <<600, 1399, 2400, 4999>>
    /\ Len(rx.attempts) = 5

---------------------------------------------------------------------------
(* Properties of schedule_next and of repeated open_ws                     *)

\* C27: schedule_next never writes into the header row: whatever the word,
\* also the header text "Word", the cell it updates lies in a row >= 2, and
\* row 1 still holds the canonical header afterwards
C27_ScheduleKeepsHeader ==
    (last.op = "schedule_next" /\ HeaderExact(last.opened)) =>
        /\ \A i \in 1..Len(last.writes) :
              last.writes[i].call = "update_cell" => last.writes[i].r >= 2
        /\ HeaderExact(sheet)


\* the rows of the table that read as the header
HeaderRows == { r \in 1..Len(sheet) : NormCells(sheet[r]) = NORM_EXPECTED }

\* C28: header repair is idempotent: once open_ws has returned, a further
\* open_ws call (the read of the header succeeding, nobody else writing)
\* sends no write and leaves the table as it is, so the table does not get a
\* second header row
C28_HeaderRepairIdempotent ==
    /\ last.op = "open_ws" =>
          /\ open_ws(sheet).writes = <<>>
          /\ open_ws(sheet).sh = sheet
    /\ (last.op = "open_ws" /\ prev.op = "open_ws") =>
          /\ last.writes = <<>>
          /\ sheet = last.pre_sheet
          /\ Cardinality(HeaderRows) <= 1

\* the first open_ws inserted the header above a record, the second wrote nothing
C28_Witness ==
    /\ prev.op = "open_ws" /\ last.op = "open_ws"
    /\ prev.pre_sheet = <<R_ox>>
    /\ prev.writes # <<>>
    /\ last.writes = <<>>
    /\ sheet = <<EXPECTED_HEADERS, R_ox>>

---------------------------------------------------------------------------
(* Properties of the enrichment cache                                      *)

\* C29: a failed lookup is not served from the cache: with caching enabled,
\* after an enrich_word call during which the dictionary source failed, the
\* cache lookup of a later call for the same word is a miss, so that call asks
\* the source again; and no call is served from a payload that records a
\* failed lookup
C29_FailedLookupNotCached ==
    /\ (EnrichReturned /\ en.cache_enabled /\ ~en.raised /\ ~en.hit /\ en.payload.dict_error)
          => ~Truthy(_cache_load(en, en.word))
    /\ (en.pc # "idle" /\ en.hit) => ~en.payload.dict_error

---------------------------------------------------------------------------
(* Properties of a retried append                                          *)

\* C30: one add_word call appends at most one row to the table, also when its
\* append is retried after a transient failure of a request that the store
\* had already applied
C30_AddWordAppendsOnce ==
    last.op = "add_word" => Len(sheet) <= Len(last.opened) + 1

===========================================================================
